---------------------------- MODULE Spec2Model ----------------------------
(***************************************************************************)
(* A model of django-mongodbforms: the lazy document meta wrapper          *)
(* (documentoptions.py), the document form layer (documents.py) and the    *)
(* form field generator (fieldgenerator.py).                               *)
(*                                                                         *)
(* Each subsystem has its own specification (SpecMeta, SpecDoc, ...) over  *)
(* its own group of variables; the variables of the other groups stay at   *)
(* their idle values.                                                      *)
(***************************************************************************)
EXTENDS Integers, Sequences, FiniteSets, TLC

VARIABLES
    \* ---- documentoptions.py: LazyDocumentMetaWrapper / DocumentMetaWrapper
    meta,        \* the document's _meta dict (shared by document, lazy wrapper and wrapper)
    lazyDoc,     \* LazyDocumentMetaWrapper._document
    wrapped,     \* LazyObject._wrapped: "empty" or "wrapper" (a DocumentMetaWrapper)
    inst,        \* the DocumentMetaWrapper's instance __dict__ (<<>> before _setup)
    docGlue,     \* the documents whose fields and pk were patched by DocumentMetaWrapper.__init__
    metaBefore,  \* the meta dict as it was when the last operation started
    lastOp,      \* the last operation performed on the wrapper
    lastResult,  \* what it returned or raised
    instBefore,  \* the wrapper's instance __dict__ when the last operation started
    opCount,     \* number of operations performed on the wrapper so far
    \* ---- fieldgenerator.py: MongoFormFieldGenerator
    form_field_map,       \* MongoFormFieldGenerator.form_field_map (a class attribute)
    widget_override_map,  \* MongoFormFieldGenerator.widget_override_map (a class attribute)
    generators,           \* number of generators constructed so far
    genCall,              \* the last generate() call
    genResult,            \* what it returned or raised
    \* ---- documents.py: field lookup, fields_for_document, DocumentFormMetaclass
    doc,         \* the document class: its fields in _fields_ordered order
    docMeta,     \* what document._meta is: "dict", "lazy" or "wrapper"
    docCall,     \* the last call made on the document
    docResult,   \* what it returned or raised
    \* ---- documents.py: construct_instance, save_instance, BaseDocumentForm.save
    form,        \* a document form: its state, cleaned_data, Meta.fields and Meta.exclude
    instance,    \* form.instance: a document, an embedded document or a document class
    saveCalls,   \* number of save() calls made on the instance (or on its class)
    gridfs,      \* number of files put into GridFS
    saveCall,    \* the last call, with the form, instance and saveCalls it started from
    saveResult,  \* what it returned or raised
    saveOps,     \* number of calls made so far
    \* ---- documents.py: EmbeddedDocumentForm
    embForm,     \* an EmbeddedDocumentForm as __init__ left it: embedded field, instance, position
    parent,      \* its parent document: the embedded list and field, and the calls made on it
    embCall,     \* the last call on the form, with the form and parent it started from
    embResult,   \* what it returned or raised
    \* ---- documents.py: BaseDocumentFormSet
    formset,     \* a formset: its forms with the calls made on their instances
    fsCall,      \* the last save() call, with the formset it started from
    fsResult,    \* what it returned or raised
    \* ---- documents.py: BaseDocumentForm validation (clean, _post_clean, _update_errors)
    valForm,     \* a bound document form: _errors, cleaned_data, _validate_unique
    valInstance, \* form.instance: _fields_ordered, and what its validation calls saw
    valCall,     \* the last call, with the form and instance it started from
    valResult,   \* what it returned or raised
    valOps,      \* number of calls made so far
    \* ---- documents.py: embeddedformset_factory
    facCall,     \* the call: parent document, embedded document, embedded_name, max_num
    facResult,   \* the formset class it returned, or what it raised
    \* ---- fields.py: ListField
    listField,   \* a ListField form field: required, and its contained field's required
    lfCall,      \* the last clean() call
    lfResult,    \* what it returned or raised
    lfSeen       \* the outcome of the first clean() call for each input cleaned so far

metaVars == <<meta, lazyDoc, wrapped, inst, docGlue, metaBefore, lastOp, lastResult,
              instBefore, opCount>>

genVars == <<form_field_map, widget_override_map, generators, genCall, genResult>>

docVars == <<doc, docMeta, docCall, docResult>>

saveVars == <<form, instance, saveCalls, gridfs, saveCall, saveResult, saveOps>>

embVars == <<embForm, parent, embCall, embResult>>

fsVars == <<formset, fsCall, fsResult>>

valVars == <<valForm, valInstance, valCall, valResult, valOps>>

facVars == <<facCall, facResult>>

lfVars == <<listField, lfCall, lfResult, lfSeen>>

vars == <<metaVars, genVars, docVars, saveVars, embVars, fsVars, valVars, facVars, lfVars>>

\* the variables an operation of one group leaves alone
otherThanMeta == <<genVars, docVars, saveVars, embVars, fsVars,
                   valVars, facVars, lfVars>>
otherThanGen == <<metaVars, docVars, saveVars, embVars, fsVars,
                  valVars, facVars, lfVars>>
otherThanDoc == <<metaVars, genVars, saveVars, embVars, fsVars,
                  valVars, facVars, lfVars>>
otherThanSave == <<metaVars, genVars, docVars, embVars, fsVars,
                   valVars, facVars, lfVars>>
otherThanEmb == <<metaVars, genVars, docVars, saveVars, fsVars,
                  valVars, facVars, lfVars>>
otherThanFormSet == <<metaVars, genVars, docVars, saveVars, embVars,
                     valVars, facVars, lfVars>>
otherThanVal == <<metaVars, genVars, docVars, saveVars, embVars, fsVars, facVars, lfVars>>
otherThanFac == <<metaVars, genVars, docVars, saveVars, embVars, fsVars, valVars, lfVars>>
otherThanListField == <<metaVars, genVars, docVars, saveVars, embVars, fsVars, valVars,
                       facVars>>

\* ------------------------------------------------------------------ values

None == [tag |-> "None"]
Val(v) == [tag |-> "value", val |-> v]
Bool(b) == [tag |-> "bool", b |-> b]
IntV(n) == [tag |-> "int", n |-> n]
Raise(e) == [tag |-> "raise", exc |-> e]
IsRaise(r, e) == r.tag = "raise" /\ r.exc = e

Min(S) == CHOOSE x \in S : \A y \in S : x <= y

\* a python dict: a function whose DOMAIN is its key set
EmptyDict == <<>>
DictSet(K, V) == UNION {[D -> V] : D \in SUBSET K}
DictPut(d, k, v) == [x \in DOMAIN d \cup {k} |-> IF x = k THEN v ELSE d[x]]
DictDel(d, k) == [x \in DOMAIN d \ {k} |-> d[x]]

\* ------------------------------------------------------------------ bounds

\* operations performed on one wrapper
MaxOps == 3

\* form field generators constructed
MaxGenerators == 2

\* fields of a document
MaxDocFields == 2

\* names in a `fields` or `exclude` list
MaxListLen == 2

\* calls made with one form
MaxSaveOps == 3

\* embedded documents in the list field of a parent document
MaxEmbedded == 2

\* calls made on one parent document
MaxParentCalls == 2

\* forms of a formset
MaxForms == 2

\* save() calls on one formset
MaxFormSetSaves == 2

\* messages in one list of a message dict
MaxMessages == 2

\* calls made on one form during validation
MaxValOps == 3

\* fields of the parent document of an embedded formset
MaxFacFields == 3

\* values in a list given to ListField.clean
MaxValues == 2

\* clean() calls on one ListField
MaxCleanCalls == 2

\* ------------------------------------------------------ documentoptions.py

\* the documents a wrapper is built over (tests.py: TestDocument)
Documents == {"TestDocument", "OtherDocument"}

\* str.lower() on the names the model uses
LowerTable ==
    [TestDocument |-> "testdocument", OtherDocument |-> "otherdocument",
     BaseField |-> "basefield", ComplexBaseField |-> "complexbasefield",
     ObjectIdField |-> "objectidfield", StringField |-> "stringfield",
     EmailField |-> "emailfield", IntField |-> "intfield", LongField |-> "longfield",
     ReferenceField |-> "referencefield",
     EmbeddedDocumentField |-> "embeddeddocumentfield",
     ListField |-> "listfield", SortedListField |-> "sortedlistfield",
     DictField |-> "dictfield", MapField |-> "mapfield",
     GeoPointField |-> "geopointfield", FileField |-> "filefield",
     PersonField |-> "personfield", BigCounter |-> "bigcounter",
     AuditMixin |-> "auditmixin", AuditedIntField |-> "auditedintfield",
     MyGeo |-> "mygeo", object |-> "object"]

Lower(name) == IF name \in DOMAIN LowerTable THEN LowerTable[name] ELSE name

\* keys and values of the meta dict
MetaKeys == {"abstract", "custom"}
MetaValues == {"yes", "no"}

\* the meta dicts a document can come with; 'id_field' names the pk field
InitialMetas ==
    LET plain == DictSet(MetaKeys, MetaValues)
    IN  plain \cup {DictPut(d, "id_field", "id") : d \in plain}

\* class attributes of DocumentMetaWrapper, with their class-level values
ClassAttrs ==
    {"pk", "pk_name", "_app_label", "model_name", "_verbose_name", "has_auto_field",
     "object_name", "proxy", "parents", "many_to_many", "_field_cache", "document",
     "_meta", "concrete_model", "concrete_managers", "virtual_fields", "auto_created",
     "_deprecated_attrs"}

ClassDefault(name) ==
    CASE name \in {"proxy", "many_to_many", "concrete_managers", "virtual_fields"} -> Val("[]")
      [] name = "parents" -> Val("{}")
      [] name \in {"has_auto_field", "auto_created"} -> Bool(FALSE)
      [] name = "_deprecated_attrs" -> Val("{'module_name': 'model_name'}")
      [] OTHER -> None

\* properties of DocumentMetaWrapper; none has a setter
Properties == {"app_label", "verbose_name", "verbose_name_raw", "verbose_name_plural", "swapped"}

\* DocumentMetaWrapper._deprecated_attrs
DeprecatedAttrs == [module_name |-> "model_name"]

\* the attribute names the model sets and reads
AttrNames == {"object_name", "pk", "verbose_name", "module_name", "custom", "abstract"}

\* capfirst(create_verbose_name(name))
VerboseOf(name) == [tag |-> "verbose", of |-> name]

\* PkWrapper built by _init_pk
PkWrapper(m) ==
    IF "id_field" \in DOMAIN m
    THEN [tag |-> "PkWrapper", obj |-> m["id_field"], name |-> m["id_field"],
          attname |-> m["id_field"], fake |-> FALSE, editable |-> FALSE]
    ELSE [tag |-> "PkWrapper", obj |-> "None", name |-> "absent",
          attname |-> "absent", fake |-> TRUE, editable |-> TRUE]

\* what _setup_document_fields and _init_pk leave on the document
DocumentGlue(document, m) ==
    [doc |-> document, fieldsPatched |-> TRUE, pkValPatched |-> "id_field" \in DOMAIN m]

\* the instance __dict__ DocumentMetaWrapper.__init__ leaves
WrapperInit(document, m) ==
    LET base == [document |-> Val(document), concrete_model |-> Val(document),
                 _meta |-> Val("document._meta"), object_name |-> Val(document),
                 model_name |-> Val(Lower(document)), pk |-> PkWrapper(m)]
    IN  IF "id_field" \in DOMAIN m
        THEN DictPut(base, "pk_name", Val(m["id_field"]))
        ELSE base

\* the verbose_name getter caches its value in _verbose_name
VerboseCached(i, m) ==
    IF "_verbose_name" \in DOMAIN i
    THEN i
    ELSE DictPut(i, "_verbose_name",
                 IF "verbose_name" \in DOMAIN m
                 THEN VerboseOf(m["verbose_name"])
                 ELSE IF i["object_name"].tag = "value"
                      THEN VerboseOf(i["object_name"].val)
                      ELSE VerboseOf("?"))

\* getattr(wrapper, name): <<result, instance __dict__ afterwards>>
RECURSIVE WrapperGetAttr(_, _, _)
WrapperGetAttr(i, m, name) ==
    IF name \in DOMAIN i /\ name \notin Properties
    THEN <<i[name], i>>
    ELSE IF name \in {"verbose_name", "verbose_name_raw"}
    THEN <<VerboseCached(i, m)["_verbose_name"], VerboseCached(i, m)>>
    ELSE IF name \in Properties
    THEN <<Val("property"), i>>
    ELSE IF name \in ClassAttrs
    THEN <<ClassDefault(name), i>>
    \* DocumentMetaWrapper.__getattr__
    ELSE IF name \in DOMAIN DeprecatedAttrs
    THEN WrapperGetAttr(i, m, DeprecatedAttrs[name])
    ELSE IF name \in DOMAIN m
    THEN <<Val(m[name]), i>>
    ELSE <<Raise("AttributeError"), i>>

\* hasattr(wrapper, name)
WrapperHasAttr(i, m, name) == WrapperGetAttr(i, m, name)[1] # Raise("AttributeError")

\* __setattr__ without the hasattr test: every name goes to the meta dict
WrapperSetAttr_AlwaysMeta(i, m, name, v) == <<None, i, DictPut(m, name, v)>>

\* DocumentMetaWrapper.__setattr__: <<result, instance __dict__, meta dict>>
WrapperSetAttr(i, m, name, v) ==
    LET probed == WrapperGetAttr(i, m, name)[2]   \* hasattr runs a property's getter
    IN  IF ~WrapperHasAttr(i, m, name)
        THEN <<None, probed, DictPut(m, name, v)>>
        ELSE IF name \in Properties
        THEN <<Raise("AttributeError"), probed, m>>   \* a property without a setter
        ELSE <<None, DictPut(probed, name, Val(v)), m>>

\* DocumentMetaWrapper.__getitem__
WrapperGetItem(m, key) == IF key \in DOMAIN m THEN Val(m[key]) ELSE Raise("KeyError")

\* DocumentMetaWrapper.get
WrapperGet(m, key) ==
    IF WrapperGetItem(m, key) = Raise("KeyError") THEN None ELSE WrapperGetItem(m, key)

\* DocumentMetaWrapper.__contains__
WrapperContains(m, key) == Bool(key \in DOMAIN m)

\* DocumentMetaWrapper.__len__
WrapperLen(m) == IntV(Cardinality(DOMAIN m))

\* LazyDocumentMetaWrapper._setup, run by LazyObject when _wrapped is still empty:
\* the wrapper's instance __dict__ once LazyObject has made sure of _wrapped
SetUpInst == IF wrapped = "empty" THEN WrapperInit(lazyDoc, meta) ELSE inst
SetUpGlue == IF wrapped = "empty" THEN docGlue \cup {DocumentGlue(lazyDoc, meta)} ELSE docGlue

\* bookkeeping common to every operation on the lazy wrapper
Record(op, key, v) ==
    /\ opCount < MaxOps
    /\ opCount' = opCount + 1
    /\ lastOp' = [op |-> op, key |-> key, val |-> v]
    /\ metaBefore' = meta
    /\ instBefore' = inst
    /\ UNCHANGED otherThanMeta

\* LazyDocumentMetaWrapper.__getitem__: self._wrapped is read as it is; while it
\* still is LazyObject's `empty` object() the method lookup on it fails
LazyGetItem(key) ==
    /\ Record("getitem", key, "")
    /\ lastResult' = IF wrapped = "empty" THEN Raise("AttributeError")
                     ELSE WrapperGetItem(meta, key)
    /\ UNCHANGED <<meta, lazyDoc, wrapped, inst, docGlue>>

\* LazyDocumentMetaWrapper.__setitem__ calls _wrapped.__getitem__(key, value)
LazySetItem(key, v) ==
    /\ Record("setitem", key, v)
    /\ lastResult' = IF wrapped = "empty" THEN Raise("AttributeError")
                     ELSE Raise("TypeError")
    /\ UNCHANGED <<meta, lazyDoc, wrapped, inst, docGlue>>

\* LazyDocumentMetaWrapper.__delitem__
LazyDelItem(key) ==
    /\ Record("delitem", key, "")
    /\ lastResult' = IF wrapped = "empty" THEN Raise("AttributeError")
                     ELSE IF key \in DOMAIN meta THEN None ELSE Raise("KeyError")
    /\ meta' = IF wrapped = "wrapper" /\ key \in DOMAIN meta THEN DictDel(meta, key) ELSE meta
    /\ UNCHANGED <<lazyDoc, wrapped, inst, docGlue>>

\* LazyDocumentMetaWrapper.__len__
LazyLen ==
    /\ Record("len", "", "")
    /\ lastResult' = IF wrapped = "empty" THEN Raise("AttributeError")
                     ELSE WrapperLen(meta)
    /\ UNCHANGED <<meta, lazyDoc, wrapped, inst, docGlue>>

\* LazyDocumentMetaWrapper.__contains__
LazyContains(key) ==
    /\ Record("contains", key, "")
    /\ lastResult' = IF wrapped = "empty" THEN Raise("AttributeError")
                     ELSE WrapperContains(meta, key)
    /\ UNCHANGED <<meta, lazyDoc, wrapped, inst, docGlue>>

\* meta.get(key): `get` is not defined on the lazy class, so LazyObject.__getattr__
\* sets the wrapper up and DocumentMetaWrapper.get answers
LazyGet(key) ==
    /\ Record("get", key, "")
    /\ lastResult' = WrapperGet(meta, key)
    /\ wrapped' = "wrapper"
    /\ inst' = SetUpInst
    /\ docGlue' = SetUpGlue
    /\ UNCHANGED <<meta, lazyDoc>>

\* meta.<name>: LazyObject.__getattr__, then getattr on the wrapper
LazyGetAttr(name) ==
    /\ Record("getattr", name, "")
    /\ lastResult' = WrapperGetAttr(SetUpInst, meta, name)[1]
    /\ wrapped' = "wrapper"
    /\ inst' = WrapperGetAttr(SetUpInst, meta, name)[2]
    /\ docGlue' = SetUpGlue
    /\ UNCHANGED <<meta, lazyDoc>>

\* meta.<name> = v: LazyDocumentMetaWrapper.__setattr__ hands every name but
\* _document and _meta to LazyObject.__setattr__, which sets the wrapper up and
\* calls setattr on it
LazySetAttr(name, v) ==
    /\ Record("setattr", name, v)
    /\ lastResult' = WrapperSetAttr(SetUpInst, meta, name, v)[1]
    /\ wrapped' = "wrapper"
    /\ inst' = WrapperSetAttr(SetUpInst, meta, name, v)[2]
    /\ meta' = WrapperSetAttr(SetUpInst, meta, name, v)[3]
    /\ docGlue' = SetUpGlue
    /\ UNCHANGED lazyDoc

\* meta._document = d: kept on the lazy object itself, the wrapper is not touched
LazySetDocument(d) ==
    /\ Record("setattr", "_document", d)
    /\ lastResult' = None
    /\ lazyDoc' = d
    /\ UNCHANGED <<meta, wrapped, inst, docGlue>>

\* ------------------------------------------------------ fieldgenerator.py

\* the direct base classes (__bases__) of the mongoengine field classes and of
\* the user-defined field classes the model generates form fields for
Bases(cls) ==
    CASE cls = "BaseField" -> <<"object">>
      [] cls = "ComplexBaseField" -> <<"BaseField">>
      [] cls \in {"ObjectIdField", "StringField", "IntField", "LongField", "ReferenceField",
                  "EmbeddedDocumentField", "GeoPointField", "FileField"} -> <<"BaseField">>
      [] cls = "EmailField" -> <<"StringField">>
      [] cls \in {"ListField", "DictField"} -> <<"ComplexBaseField">>
      [] cls = "SortedListField" -> <<"ListField">>
      [] cls = "MapField" -> <<"DictField">>
      [] cls = "PersonField" -> <<"EmbeddedDocumentField">>
      [] cls = "BigCounter" -> <<"LongField">>
      [] cls = "AuditedIntField" -> <<"AuditMixin", "IntField">>
      [] cls = "MyGeo" -> <<"GeoPointField">>
      [] OTHER -> <<>>

\* issubclass(cls, target)
RECURSIVE IsSubclass(_, _)
IsSubclass(cls, target) ==
    \/ cls = target
    \/ \E k \in DOMAIN Bases(cls) : IsSubclass(Bases(cls)[k], target)

\* a document field: its class followed by the classes of the fields it
\* contains (ListField(StringField()) is <<"ListField", "StringField">>), and
\* whether the innermost field has choices and a max_length
Field(chain, choices, max_length) ==
    [chain |-> chain, choices |-> choices, max_length |-> max_length]
Cls(f) == Head(f.chain)
Contained(f) == [f EXCEPT !.chain = Tail(f.chain)]
IsInstance(f, target) == IsSubclass(Cls(f), target)
\* field.choices is set on the innermost field only
HasChoices(f) == Len(f.chain) = 1 /\ f.choices

\* the generate_<name> methods MongoFormFieldGenerator defines
GenerateMethods ==
    {"stringfield", "emailfield", "urlfield", "intfield", "floatfield", "decimalfield",
     "booleanfield", "datetimefield", "referencefield", "listfield", "mapfield",
     "filefield", "imagefield"}

\* MongoFormFieldGenerator.generator_map (the method names without 'generate_')
generator_map == [sortedlistfield |-> "listfield", longfield |-> "intfield"]

\* MongoFormFieldGenerator.form_field_map as the class body defines it
DefaultFormFieldMap ==
    [stringfield |-> "MongoCharField", stringfield_choices |-> "TypedChoiceField",
     stringfield_long |-> "MongoCharField", emailfield |-> "EmailField",
     urlfield |-> "URLField", intfield |-> "IntegerField",
     intfield_choices |-> "TypedChoiceField", floatfield |-> "FloatField",
     decimalfield |-> "DecimalField", booleanfield |-> "BooleanField",
     booleanfield_choices |-> "TypedChoiceField", datetimefield |-> "SplitDateTimeField",
     referencefield |-> "ReferenceField", listfield |-> "ListField",
     listfield_choices |-> "MultipleChoiceField",
     listfield_references |-> "DocumentMultipleChoiceField", mapfield |-> "MapField",
     filefield |-> "FileField", imagefield |-> "ImageField"]

\* MongoFormFieldGenerator.widget_override_map as the class body defines it
DefaultWidgetOverrideMap == [stringfield_long |-> "Textarea"]

\* dict.update
DictUpdate(d, e) == [k \in DOMAIN d \cup DOMAIN e |-> IF k \in DOMAIN e THEN e[k] ELSE d[k]]

\* a form field as a generate_<name> method builds it
FormField(via, map_key, form_class, widget, contained) ==
    [tag |-> "formfield", via |-> via, map_key |-> map_key, form_class |-> form_class,
     widget |-> widget, contained |-> contained]

\* _check_widget, then defaults.update(kwargs): the widget the form class is given
\* (kw is the widget passed to generate(), "" for none)
WidgetFor(wom, map_key, own, kw) ==
    IF kw # "" THEN kw
    ELSE IF map_key \in DOMAIN wom THEN wom[map_key]
    ELSE own

\* the key of form_field_map a generate_<name> method picks
MapKey(via, f) ==
    CASE via = "stringfield" ->
            IF HasChoices(f) THEN "stringfield_choices"
            ELSE IF ~f.max_length THEN "stringfield_long"
            ELSE "stringfield"
      [] via = "intfield" -> IF HasChoices(f) THEN "intfield_choices" ELSE "intfield"
      [] via = "booleanfield" ->
            IF HasChoices(f) THEN "booleanfield_choices" ELSE "booleanfield"
      [] via = "listfield" ->
            IF HasChoices(Contained(f)) THEN "listfield_choices"
            ELSE IF IsInstance(Contained(f), "ReferenceField") THEN "listfield_references"
            ELSE "listfield"
      [] OTHER -> via

\* the search of MongoFormFieldGenerator.generate for a generator method:
\* the bases are tried in order; for each, generate_<base> first, then
\* form_field_map with generator_map
RECURSIVE FromBases(_, _)
FromBases(bases, ffm) ==
    IF bases = <<>> THEN [kind |-> "none", via |-> ""]
    ELSE IF Lower(Head(bases)) \in GenerateMethods
    THEN [kind |-> "method", via |-> Lower(Head(bases))]
    ELSE IF Lower(Head(bases)) \in DOMAIN ffm
    THEN IF Lower(Head(bases)) \in DOMAIN generator_map
         THEN [kind |-> "method", via |-> generator_map[Lower(Head(bases))]]
         ELSE [kind |-> "badname", via |-> ""]    \* getattr(self, None)
    ELSE FromBases(Tail(bases), ffm)

FindGenerator(f, ffm) ==
    IF Lower(Cls(f)) \in GenerateMethods
    THEN [kind |-> "method", via |-> Lower(Cls(f))]
    ELSE FromBases(Bases(Cls(f)), ffm)

\* the class of the form field `r` (form_field.__class__)
ClassOf(r) == IF r.tag = "formfield" THEN r.form_class ELSE "NoneType"

\* the CharField MongoDefaultFormFieldGenerator.generate falls back to
FallbackCharField(kw) == FormField("fallback", "", "CharField", kw, "")

\* generate(field, **kwargs) of generator class `gen` ("base" is
\* MongoFormFieldGenerator, "default" MongoDefaultFormFieldGenerator), with the
\* class-level maps as they are; generate_listfield and generate_mapfield call
\* self.generate on the contained field
RECURSIVE Generate(_, _, _, _, _)
Generate(gen, f, ffm, wom, kw) ==
    LET found == FindGenerator(f, ffm)
        Simple(via, own) ==
            FormField(via, MapKey(via, f), ffm[MapKey(via, f)],
                      WidgetFor(wom, MapKey(via, f), own, kw), "")
        Composite(via) ==
            LET inner == Generate(gen, Contained(f), ffm, wom, "")
            IN  IF inner.tag = "raise" THEN inner
                \* contained_field=NoneType: ListField/MapField.__init__ fails on
                \* contained_field().widget (TypeError or AttributeError)
                ELSE IF inner.tag = "None" THEN Raise("ContainedNone")
                ELSE FormField(via, via, ffm[via], WidgetFor(wom, via, "", kw),
                               ClassOf(inner))
        Method(via) ==
            IF via \in {"listfield", "mapfield"}
            THEN IF IsInstance(Contained(f), "EmbeddedDocumentField") THEN None
                 ELSE IF MapKey(via, f) = "listfield_choices"
                 THEN Simple(via, "CheckboxSelectMultiple")
                 ELSE IF MapKey(via, f) = "listfield_references"
                 THEN Simple(via, "")
                 ELSE Composite(via)
            ELSE Simple(via, "")
        super ==
            IF IsInstance(f, "EmbeddedDocumentField") THEN None
            ELSE IF found.kind = "method" THEN Method(found.via)
            ELSE IF found.kind = "badname" THEN Raise("TypeError")
            ELSE Raise("NotImplementedError")
    IN  IF gen = "default" /\ super.tag = "raise" /\ super.exc = "NotImplementedError"
        THEN FallbackCharField(kw)
        ELSE super

\* the generate_<name> method generate() hands the field to ("" for none)
Dispatched(f, ffm) ==
    IF IsInstance(f, "EmbeddedDocumentField") THEN "embedded"
    ELSE IF FindGenerator(f, ffm).kind = "method" THEN FindGenerator(f, ffm).via
    ELSE FindGenerator(f, ffm).kind

\* the document fields form fields are generated for
FieldSamples ==
    {Field(<<"StringField">>, c, m) : c, m \in BOOLEAN}
    \cup {Field(<<"IntField">>, c, FALSE) : c \in BOOLEAN}
    \cup {Field(<<c>>, FALSE, FALSE) :
            c \in {"EmailField", "LongField", "BigCounter", "ReferenceField",
                   "EmbeddedDocumentField", "PersonField", "AuditedIntField", "MyGeo",
                   "GeoPointField", "ObjectIdField", "FileField"}}
    \cup {Field(<<"ListField", "StringField">>, c, FALSE) : c \in BOOLEAN}
    \cup {Field(<<l, c>>, FALSE, FALSE) :
            l \in {"ListField", "MapField"},
            c \in {"LongField", "EmbeddedDocumentField", "ReferenceField"}}
    \cup {Field(<<"SortedListField", "IntField">>, FALSE, FALSE),
          Field(<<"ListField", "ListField", "EmbeddedDocumentField">>, FALSE, FALSE)}

\* the field_overrides and widget_overrides a generator is constructed with
FieldOverrides == DictSet({"stringfield", "longfield", "geopointfield"}, {"MyFormField"})
WidgetOverrides == DictSet({"stringfield_long", "listfield"}, {"MyWidget"})

\* MongoFormFieldGenerator.__init__: the overrides update the class-level dicts
NewGenerator(field_overrides, widget_overrides) ==
    /\ generators < MaxGenerators
    /\ generators' = generators + 1
    /\ form_field_map' = DictUpdate(form_field_map, field_overrides)
    /\ widget_override_map' = DictUpdate(widget_override_map, widget_overrides)
    /\ genCall' = [op |-> "new", field_overrides |-> field_overrides,
                   widget_overrides |-> widget_overrides]
    /\ genResult' = None
    /\ UNCHANGED otherThanGen

\* generator.generate(field, widget=kw)
GenerateCall(gen, f, kw) ==
    /\ genCall' = [op |-> "generate", gen |-> gen, field |-> f, kw |-> kw,
                   dispatched |-> Dispatched(f, form_field_map)]
    /\ genResult' = Generate(gen, f, form_field_map, widget_override_map, kw)
    /\ UNCHANGED <<form_field_map, widget_override_map, generators>>
    /\ UNCHANGED otherThanGen

\* ------------------------------------------------------------ documents.py

\* an optional list argument (fields=None, exclude=None): None or a list
NoList == [given |-> FALSE, items |-> <<>>]
List(items) == [given |-> TRUE, items |-> items]
\* `if fields`: None and the empty list are both false
Truthy(l) == l.given /\ l.items # <<>>
Items(l) == {l.items[k] : k \in DOMAIN l.items}

\* an OrderedDict: a sequence of key/value pairs with distinct keys
ODKeys(od) == {od[k].key : k \in DOMAIN od}
ODGet(od, key) ==
    IF key \in ODKeys(od) THEN od[CHOOSE k \in DOMAIN od : od[k].key = key].value ELSE None
ODSet(od, key, value) ==
    IF key \in ODKeys(od)
    THEN [k \in DOMAIN od |-> IF od[k].key = key THEN [key |-> key, value |-> value] ELSE od[k]]
    ELSE Append(od, [key |-> key, value |-> value])
RECURSIVE ODUpdate(_, _)
ODUpdate(od, pairs) ==
    IF pairs = <<>> THEN od
    ELSE ODUpdate(ODSet(od, Head(pairs).key, Head(pairs).value), Tail(pairs))
OrderedDict(pairs) == ODUpdate(<<>>, pairs)

\* the fields a document class is built from
FieldPool ==
    {[name |-> "id", type |-> Field(<<"ObjectIdField">>, FALSE, FALSE)],
     [name |-> "title", type |-> Field(<<"StringField">>, FALSE, TRUE)],
     [name |-> "author", type |-> Field(<<"ReferenceField">>, FALSE, FALSE)],
     [name |-> "body", type |-> Field(<<"EmbeddedDocumentField">>, FALSE, FALSE)],
     [name |-> "where", type |-> Field(<<"GeoPointField">>, FALSE, FALSE)]}

\* sequences of at most n elements of S
RECURSIVE SeqsUpTo(_, _)
SeqsUpTo(S, n) ==
    IF n = 0 THEN {<<>>}
    ELSE SeqsUpTo(S, n - 1)
         \cup {Append(q, x) : q \in {r \in SeqsUpTo(S, n - 1) : Len(r) = n - 1},
                              x \in S}
NoRepeat(q) == \A a, b \in DOMAIN q : a # b => q[a] # q[b]

\* the document classes: some fields of the pool in some order
DocSamples == {d \in SeqsUpTo(FieldPool, MaxDocFields) : d # <<>> /\ NoRepeat(d)}

\* document._fields: the field names, and the field of a name
FieldNames(d) == {d[k].name : k \in DOMAIN d}
FieldOf(d, name) == d[CHOOSE k \in DOMAIN d : d[k].name = name]

\* DocumentMetaWrapper.get_field_by_name answering None for an unknown name
get_field_by_name_NoRaise(d, name) ==
    IF name \in FieldNames(d)
    THEN [tag |-> "tuple", field |-> FieldOf(d, name), model |-> "None",
          direct |-> TRUE, m2m |-> FALSE]
    ELSE None

\* DocumentMetaWrapper.get_field_by_name: (field_object, model, direct, m2m)
get_field_by_name(d, name) ==
    IF name \in FieldNames(d)
    THEN IF IsInstance(FieldOf(d, name).type, "ReferenceField")
         THEN [tag |-> "tuple", field |-> FieldOf(d, name), model |-> "document_type",
               direct |-> FALSE, m2m |-> FALSE]
         ELSE [tag |-> "tuple", field |-> FieldOf(d, name), model |-> "None",
               direct |-> TRUE, m2m |-> FALSE]
    ELSE Raise("FieldDoesNotExist")

\* DocumentMetaWrapper.get_field: get_field_by_name(name)[0]
get_field(d, name) ==
    IF get_field_by_name(d, name).tag = "tuple"
    THEN [tag |-> "field", field |-> get_field_by_name(d, name).field]
    ELSE get_field_by_name(d, name)

\* the names looked up, listed in `fields` and `exclude`, and declared on a form
LookupNames == {"id", "title", "author", "body", "where", "bogus"}
ListNames == {"id", "title", "bogus"}
ListSamples == {NoList} \cup {List(q) : q \in {r \in SeqsUpTo(ListNames, MaxListLen) : NoRepeat(r)}}
ExcludeSamples == {NoList, List(<<>>), List(<<"title">>), List(<<"id", "body">>)}

\* meta.get_field_by_name(name) on the document's DocumentMetaWrapper
GetFieldByName ==
    /\ docCall' = [docCall EXCEPT !.op = "get_field_by_name"]
    /\ docResult' = get_field_by_name(doc, docCall.name)
    /\ UNCHANGED <<doc, docMeta>>
    /\ UNCHANGED otherThanDoc

\* meta.get_field(name)
GetField ==
    /\ docCall' = [docCall EXCEPT !.op = "get_field"]
    /\ docResult' = get_field(doc, docCall.name)
    /\ UNCHANGED <<doc, docMeta>>
    /\ UNCHANGED otherThanDoc

\* the formfield_callback values: none, something not callable, and two callables
Callbacks == {"None", "notcallable", "none_for_all", "charfield_for_all"}
CallbackResult(cb, kw) ==
    IF cb = "charfield_for_all" THEN FormField("callback", "", "CharField", kw, "") ELSE None

\* the `widgets` dicts ({} stands for None as well: `if widgets` treats them alike)
WidgetDicts == {EmptyDict, [title |-> "Textarea"]}

\* the body of the loop of fields_for_document for one field
FormFieldFor(fr, widgets, cb, gen, ffm, wom) ==
    LET kw == IF fr.name \in DOMAIN widgets THEN widgets[fr.name] ELSE ""
    IN  IF cb # "None" THEN CallbackResult(cb, kw)
        ELSE Generate(gen, fr.type, ffm, wom, kw)

\* `if fields and not f.name in fields: continue`, the same for exclude, and
\* the ObjectIdField test
Skipped(fr, fields, exclude) ==
    \/ IsInstance(fr.type, "ObjectIdField")
    \/ Truthy(fields) /\ fr.name \notin Items(fields)
    \/ Truthy(exclude) /\ fr.name \in Items(exclude)

\* one turn of the loop: `if formfield: field_list.append((f.name, formfield))`,
\* an exception ending the loop where it is raised
Appended(name, ff, rest) ==
    IF ff.tag = "raise" THEN ff
    ELSE IF rest.tag = "raise" THEN rest
    ELSE IF ff.tag = "None" THEN rest
    ELSE [tag |-> "list", items |-> <<[key |-> name, value |-> ff]>> \o rest.items]

\* the loop of fields_for_document: field_list, or the exception a generator raised
RECURSIVE FieldList(_, _, _, _, _, _, _, _)
FieldList(d, fields, exclude, widgets, cb, gen, ffm, wom) ==
    IF d = <<>> THEN [tag |-> "list", items |-> <<>>]
    ELSE IF Skipped(Head(d), fields, exclude)
    THEN FieldList(Tail(d), fields, exclude, widgets, cb, gen, ffm, wom)
    ELSE Appended(Head(d).name, FormFieldFor(Head(d), widgets, cb, gen, ffm, wom),
                  FieldList(Tail(d), fields, exclude, widgets, cb, gen, ffm, wom))

\* [(f, field_dict.get(f)) for f in fields if (not exclude) or (exclude and f not in exclude)]
RECURSIVE NamedPairs(_, _, _)
NamedPairs(names, exclude, field_dict) ==
    IF names = <<>> THEN <<>>
    ELSE IF ~Truthy(exclude) \/ Head(names) \notin Items(exclude)
    THEN <<[key |-> Head(names), value |-> ODGet(field_dict, Head(names))]>>
         \o NamedPairs(Tail(names), exclude, field_dict)
    ELSE NamedPairs(Tail(names), exclude, field_dict)

\* the end of fields_for_document: field_dict, rebuilt from `fields` if `fields`
FieldDict(fl, fields, exclude) ==
    IF fl.tag = "raise" THEN fl
    ELSE [tag |-> "dict",
          items |-> IF Truthy(fields)
                    THEN OrderedDict(NamedPairs(fields.items, exclude, OrderedDict(fl.items)))
                    ELSE OrderedDict(fl.items)]

\* the end of fields_for_document keeping the names of `fields` that are in
\* `exclude`
FieldDict_KeepExcluded(fl, fields, exclude) ==
    IF fl.tag = "raise" THEN fl
    ELSE [tag |-> "dict",
          items |-> IF Truthy(fields)
                    THEN OrderedDict(NamedPairs(fields.items, NoList, OrderedDict(fl.items)))
                    ELSE OrderedDict(fl.items)]

\* fields_for_document: the OrderedDict of form fields, or the exception raised
fields_for_document(d, fields, exclude, widgets, cb, gen, ffm, wom) ==
    IF cb = "notcallable" THEN Raise("TypeError")
    ELSE FieldDict(FieldList(d, fields, exclude, widgets, cb, gen, ffm, wom),
                   fields, exclude)

\* the generator and callback combinations fields are generated with
GeneratorChoices ==
    {[gen |-> g, cb |-> "None"] : g \in {"base", "default"}}
    \cup {[gen |-> "default", cb |-> c] : c \in Callbacks \ {"None"}}

FieldsForDocument ==
    /\ docCall' = [docCall EXCEPT !.op = "fields_for_document"]
    /\ docResult' = fields_for_document(doc, docCall.fields, docCall.exclude,
                                        docCall.widgets, docCall.how.cb, docCall.how.gen,
                                        form_field_map, widget_override_map)
    /\ UNCHANGED <<doc, docMeta>>
    /\ UNCHANGED otherThanDoc

\* the fields declared on a form class (DeclarativeFieldsMetaclass.declared_fields)
DeclaredField == FormField("declared", "", "Declared", "", "")
DeclaredSamples == {<<>>, <<"body">>, <<"extra", "title">>}
RECURSIVE DeclaredFields(_)
DeclaredFields(names) ==
    IF names = <<>> THEN <<>>
    ELSE <<[key |-> Head(names), value |-> DeclaredField]>> \o DeclaredFields(Tail(names))

\* DocumentFormMetaclass.__new__ from the generated fields on: the class, or
\* the exception raised
NoneDocumentFields(generated) ==
    {generated[k].key : k \in {j \in DOMAIN generated : generated[j].value.tag = "None"}}
\* DocumentFormMetaclass.__new__ never raising FieldError
ClassWithFields_NoFieldError(generated, declared) ==
    IF generated.tag = "raise" THEN generated
    ELSE [tag |-> "class",
          base_fields |-> ODUpdate(generated.items, DeclaredFields(declared))]

ClassWithFields(generated, declared) ==
    IF generated.tag = "raise" THEN generated
    ELSE IF NoneDocumentFields(generated.items) \ {declared[k] : k \in DOMAIN declared} # {}
    THEN Raise("FieldError")
    ELSE [tag |-> "class",
          base_fields |-> ODUpdate(generated.items, DeclaredFields(declared))]

\* DocumentFormMetaclass.__new__ for a class with a document form among its
\* bases and a Meta naming the document
NewClassWithDocument(d, fields, exclude, declared, gen, ffm, wom) ==
    ClassWithFields(fields_for_document(d, fields, exclude, EmptyDict, "None", gen,
                                        ffm, wom),
                    declared)

\* DocumentFormMetaclass.__new__; ModelFormOptions wraps the document's _meta
NewFormClass ==
    /\ docCall' = [docCall EXCEPT !.op = "new_class"]
    /\ docResult' =
          IF docCall.parents /\ docCall.hasDocument
          THEN NewClassWithDocument(doc, docCall.fields, docCall.exclude, docCall.declared,
                                    docCall.how.gen, form_field_map, widget_override_map)
          ELSE [tag |-> "class", base_fields |-> DeclaredFields(docCall.declared)]
    /\ docMeta' = IF docCall.parents /\ docCall.hasDocument THEN "wrapper" ELSE docMeta
    /\ UNCHANGED doc
    /\ UNCHANGED otherThanDoc

\* the arguments the operations on a document are called with
NoArgs ==
    [op |-> "none", name |-> "id", fields |-> NoList, exclude |-> NoList,
     widgets |-> EmptyDict, how |-> [gen |-> "default", cb |-> "None"],
     parents |-> TRUE, hasDocument |-> TRUE, declared |-> <<>>]
ArgSamples ==
    {[NoArgs EXCEPT !.name = n] : n \in LookupNames}
    \cup {[NoArgs EXCEPT !.fields = f, !.exclude = e, !.widgets = w, !.how = h] :
             f \in ListSamples, e \in ExcludeSamples, w \in WidgetDicts,
             h \in GeneratorChoices}
    \cup {[NoArgs EXCEPT !.fields = f, !.exclude = e, !.declared = d, !.parents = p[1],
                         !.hasDocument = p[2], !.how = [gen |-> g, cb |-> "None"]] :
             f \in ListSamples, e \in ExcludeSamples, d \in DeclaredSamples,
             p \in {<<FALSE, TRUE>>, <<TRUE, FALSE>>, <<TRUE, TRUE>>},
             g \in {"base", "default"}}

IdleDoc ==
    /\ doc = <<>>
    /\ docMeta = "dict"
    /\ docCall = NoArgs
    /\ docResult = None

\* ------------------------------- documents.py: construct_instance, save_instance

\* the values a FileField has in cleaned_data: a new upload, the GridFS proxy of
\* a file uploaded before, or None
Uploads == {"upload", "proxy", "none"}

\* form.cleaned_data as full_clean leaves it: some of the names id
\* (ObjectIdField), title (StringField) and photo (FileField)
CleanedSamples ==
    {d \in DictSet({"id", "title", "photo"}, {"new"} \cup Uploads) :
        /\ "photo" \in DOMAIN d => d["photo"] \in Uploads
        /\ \A n \in DOMAIN d \ {"photo"} : d[n] = "new"}

\* a new form is unbound, or bound and not validated yet; full_clean makes it
\* cleaned; `valid` is what validation finds
FormSamples ==
    [state : {"unbound", "bound"}, valid : BOOLEAN,
     cleaned_data : CleanedSamples,
     fields : {NoList, List(<<>>), List(<<"title">>)},
     exclude : {NoList, List(<<"title">>)}]

\* form.instance: a document or embedded document (no save method), or the
\* document class when the form was given no instance
InstanceSamples ==
    [isClass : BOOLEAN, hasSave : BOOLEAN, saveRaises : BOOLEAN,
     data : {[id |-> "oid", title |-> "old", photo |-> "nofile"]}]

\* the tests of the loop of construct_instance for the field named n
Taken(f, n, fields, exclude) ==
    /\ n \in DOMAIN f.cleaned_data
    /\ fields.given => n \in Items(fields)
    /\ ~(Truthy(exclude) /\ n \in Items(exclude))

\* the upload construct_instance handles for the FileField
TakenUpload(f, fields, exclude) ==
    IF Taken(f, "photo", fields, exclude) THEN f.cleaned_data["photo"] ELSE "none"

\* the instance's data after construct_instance: the ObjectIdField is skipped,
\* the other fields are set from cleaned_data, a new upload is put into GridFS
ConstructedData(f, i, fields, exclude) ==
    [id |-> i.data.id,
     title |-> IF Taken(f, "title", fields, exclude) THEN f.cleaned_data["title"]
               ELSE i.data.title,
     photo |-> CASE TakenUpload(f, fields, exclude) = "upload" -> "stored"
                 [] TakenUpload(f, fields, exclude) = "proxy" -> "proxy"
                 [] OTHER -> i.data.photo]

\* construct_instance: what it returns or raises, the instance as it leaves
\* it, and the files it put
construct_instance(f, i, fields, exclude) ==
    IF f.state # "cleaned"    \* no form.cleaned_data
    THEN [result |-> Raise("AttributeError"), instance |-> i, puts |-> 0]
    ELSE [result |-> [tag |-> "instance", isClass |-> FALSE],
          instance |-> [i EXCEPT !.isClass = FALSE,
                                 !.data = ConstructedData(f, i, fields, exclude)],
          puts |-> IF TakenUpload(f, fields, exclude) = "upload" THEN 1 ELSE 0]

\* form.full_clean() as far as BaseDocumentForm._post_clean constructs the
\* instance: the form and its instance afterwards
FullClean(f, i) ==
    [form |-> [f EXCEPT !.state = "cleaned"],
     instance |-> construct_instance([f EXCEPT !.state = "cleaned"], i,
                                     f.fields, f.exclude).instance,
     puts |-> construct_instance([f EXCEPT !.state = "cleaned"], i,
                                 f.fields, f.exclude).puts]

\* form.errors: whether it is non-empty, and what evaluating it did
Errors(f, i) ==
    IF f.state = "bound"
    THEN [nonempty |-> ~f.valid, form |-> FullClean(f, i).form,
          instance |-> FullClean(f, i).instance, puts |-> FullClean(f, i).puts]
    ELSE [nonempty |-> f.state = "cleaned" /\ ~f.valid, form |-> f, instance |-> i,
          puts |-> 0]

\* the end of save_instance always calling instance.save()
Committed_AlwaysSave(local, e, commit) ==
    IF e.nonempty
    THEN [result |-> Raise("ValueError"), form |-> e.form, instance |-> e.instance,
          puts |-> e.puts, saves |-> 0]
    ELSE [result |-> IF local.isClass THEN Raise("TypeError")
                     ELSE IF local.saveRaises THEN Raise("SaveError")
                     ELSE [tag |-> "instance", isClass |-> FALSE],
          form |-> e.form, instance |-> e.instance, puts |-> e.puts, saves |-> 1]

\* the end of save_instance, from `if form.errors` on: `local` is the object
\* the variable `instance` names, e what evaluating form.errors gave
Committed(local, e, commit) ==
    IF e.nonempty
    THEN [result |-> Raise("ValueError"), form |-> e.form, instance |-> e.instance,
          puts |-> e.puts, saves |-> 0]
    ELSE IF commit /\ local.hasSave
    THEN [result |-> IF local.isClass THEN Raise("TypeError")    \* Document.save()
                     ELSE IF local.saveRaises THEN Raise("SaveError")
                     ELSE [tag |-> "instance", isClass |-> FALSE],
          form |-> e.form, instance |-> e.instance, puts |-> e.puts, saves |-> 1]
    ELSE [result |-> [tag |-> "instance", isClass |-> local.isClass],
          form |-> e.form, instance |-> e.instance, puts |-> e.puts, saves |-> 0]

\* save_instance after `if construct`: c is what construct_instance gave
Constructed(f, i, c, commit) ==
    IF c.result.tag = "raise"
    THEN [result |-> c.result, form |-> f, instance |-> i, puts |-> 0, saves |-> 0]
    ELSE [Committed(c.instance, Errors(f, c.instance), commit)
             EXCEPT !.puts = @ + c.puts]

\* save_instance(form, instance, fields, fail_message, commit, exclude, construct)
save_instance(f, i, fields, commit, exclude, construct) ==
    IF construct
    THEN Constructed(f, i, construct_instance(f, i, fields, exclude), commit)
    ELSE Committed(i, Errors(f, i), commit)

\* the object form.instance is after a call that was handed form.instance: a
\* document is changed in place, a class is left as it is unless full_clean
\* has replaced it
InstanceAfter(before, f, after) ==
    IF before.isClass /\ f.state = "cleaned" THEN before ELSE after

SaveRecord(op, commit, construct) ==
    /\ saveOps < MaxSaveOps
    /\ saveOps' = saveOps + 1
    /\ saveCall' = [op |-> op, commit |-> commit, construct |-> construct,
                    form |-> form, instance |-> instance, saveCalls |-> saveCalls]
    /\ UNCHANGED otherThanSave

\* form.errors (form.is_valid()) evaluated by the caller
FormErrors ==
    /\ SaveRecord("errors", FALSE, FALSE)
    /\ form' = Errors(form, instance).form
    /\ instance' = Errors(form, instance).instance
    /\ gridfs' = gridfs + Errors(form, instance).puts
    /\ saveResult' = Bool(Errors(form, instance).nonempty)
    /\ UNCHANGED saveCalls

\* construct_instance(form, form.instance, Meta.fields, Meta.exclude)
ConstructInstance ==
    /\ SaveRecord("construct_instance", FALSE, TRUE)
    /\ saveResult' = construct_instance(form, instance, form.fields, form.exclude).result
    /\ instance' = InstanceAfter(instance, form,
                      construct_instance(form, instance, form.fields, form.exclude).instance)
    /\ gridfs' = gridfs + construct_instance(form, instance, form.fields, form.exclude).puts
    /\ UNCHANGED <<form, saveCalls>>

\* save_instance(form, form.instance, Meta.fields, commit=commit,
\* exclude=Meta.exclude, construct=construct)
SaveInstance(commit, construct) ==
    /\ SaveRecord("save_instance", commit, construct)
    /\ saveResult' = save_instance(form, instance, form.fields, commit, form.exclude,
                                   construct).result
    /\ form' = save_instance(form, instance, form.fields, commit, form.exclude,
                             construct).form
    /\ instance' = InstanceAfter(instance, form,
                      save_instance(form, instance, form.fields, commit, form.exclude,
                                    construct).instance)
    /\ gridfs' = gridfs + save_instance(form, instance, form.fields, commit, form.exclude,
                                        construct).puts
    /\ saveCalls' = saveCalls + save_instance(form, instance, form.fields, commit,
                                              form.exclude, construct).saves

\* BaseDocumentForm.save(commit): save_instance(self, self.instance,
\* self._meta.fields, fail_message, commit, construct=False)
FormSave(commit) ==
    /\ SaveRecord("save", commit, FALSE)
    /\ saveResult' = save_instance(form, instance, form.fields, commit, NoList, FALSE).result
    /\ form' = save_instance(form, instance, form.fields, commit, NoList, FALSE).form
    /\ instance' = save_instance(form, instance, form.fields, commit, NoList, FALSE).instance
    /\ gridfs' = gridfs + save_instance(form, instance, form.fields, commit, NoList, FALSE).puts
    /\ saveCalls' = saveCalls
                    + save_instance(form, instance, form.fields, commit, NoList, FALSE).saves

IdleSave ==
    /\ form = [state |-> "unbound", valid |-> TRUE, cleaned_data |-> EmptyDict,
               fields |-> NoList, exclude |-> NoList]
    /\ instance = [isClass |-> TRUE, hasSave |-> TRUE, saveRaises |-> FALSE,
                   data |-> [id |-> "oid", title |-> "old", photo |-> "nofile"]]
    /\ saveCalls = 0
    /\ gridfs = 0
    /\ saveCall = [op |-> "none"]
    /\ saveResult = None
    /\ saveOps = 0

\* ------------------------------------------- documents.py: EmbeddedDocumentForm

\* the parent document has a ListField of embedded documents and a plain
\* EmbeddedDocumentField; a form's Meta.embedded_field_name names one of
\* them, a field the parent does not have, or nothing
ParentFields == {"comments", "profile"}
EmbeddedFieldNames == ParentFields \cup {"missing", "None"}
IsListField(name) == name = "comments"
EmbeddedDocs == {"a", "b"}

\* a parent document; update() and save() on it succeed or raise
ParentSamples ==
    [comments : SeqsUpTo(EmbeddedDocs, MaxEmbedded), profile : EmbeddedDocs \cup {"None"},
     updateFails : BOOLEAN, saveRaises : BOOLEAN, calls : {<<>>}]

\* a list position: 0 is None, k > 0 the python index k - 1
NoPosition == 0
Positions == 0 .. MaxEmbedded + 1

\* next((i for i, obj in enumerate(emb_list) if obj == instance), None)
FirstPosition(emb_list, obj) ==
    IF \E k \in DOMAIN emb_list : emb_list[k] = obj
    THEN CHOOSE k \in DOMAIN emb_list :
            emb_list[k] = obj /\ \A j \in 1 .. k - 1 : emb_list[j] # obj
    ELSE NoPosition

\* the form BaseDocumentForm.__init__ makes: without an instance, the
\* document class stands in for it
EmbeddedForm(embedded_field, given, position, state, valid) ==
    [tag |-> "form", embedded_field |-> embedded_field,
     instance |-> IF given = "None" THEN "class" ELSE given,
     position |-> position, state |-> state, valid |-> valid]

\* EmbeddedDocumentForm.__init__(parent_document, data, position=position,
\* instance=given): the form, or the exception raised
EmbeddedDocumentForm_init(p, embedded_field, given, position, state, valid) ==
    IF embedded_field # "None" /\ embedded_field \notin ParentFields
    THEN Raise("FieldError")
    ELSE IF IsListField(embedded_field) /\ given = "None" /\ position # NoPosition
    THEN IF position > Len(p.comments) THEN Raise("IndexError")
         ELSE EmbeddedForm(embedded_field, p.comments[position], position, state, valid)
    ELSE IF IsListField(embedded_field) /\ given # "None" /\ position = NoPosition
    THEN EmbeddedForm(embedded_field, given, FirstPosition(p.comments, given), state, valid)
    ELSE EmbeddedForm(embedded_field, given, position, state, valid)

\* self.errors: full_clean on a bound form constructs the instance, which
\* makes an instance of the document class
EmbeddedCleaned(f) ==
    IF f.state = "bound"
    THEN [f EXCEPT !.state = "cleaned",
                   !.instance = IF @ = "class" THEN "new" ELSE @]
    ELSE f
EmbeddedErrors(f) == f.state \in {"bound", "cleaned"} /\ ~f.valid

\* a call made on the parent document
ParentCall(op, field, position, value) ==
    [op |-> op, field |-> field, position |-> position, value |-> value]

\* the commit branch of EmbeddedDocumentForm.save: the result and the parent
AddToParent(f, p) ==
    IF IsListField(f.embedded_field) /\ f.position = NoPosition
    THEN [result |-> IF p.updateFails \/ f.instance = "class"
                     THEN Raise("OperationError") ELSE Val(f.instance),
          parent |-> [p EXCEPT !.calls = Append(@, ParentCall("update_push",
                                     f.embedded_field, NoPosition, f.instance))]]
    ELSE IF IsListField(f.embedded_field)
    THEN [result |-> IF p.updateFails \/ f.instance = "class"
                     THEN Raise("OperationError") ELSE Val(f.instance),
          parent |-> [p EXCEPT !.calls = Append(@, ParentCall("update_set",
                                     f.embedded_field, f.position, f.instance))]]
    ELSE IF f.embedded_field = "None"
    THEN [result |-> Raise("TypeError"), parent |-> p]    \* setattr(parent, None, ...)
    ELSE [result |-> IF p.saveRaises \/ f.instance = "class"
                     THEN Raise("SaveError") ELSE Val(f.instance),
          parent |-> [p EXCEPT !.profile = f.instance,
                               !.calls = @ \o <<ParentCall("setattr", f.embedded_field,
                                                            NoPosition, f.instance),
                                                ParentCall("save", "", NoPosition, "")>>]]

\* EmbeddedDocumentForm.save adding the instance whatever commit is
EmbeddedDocumentForm_save_IgnoreCommit(f, p, commit) ==
    IF EmbeddedErrors(f)
    THEN [result |-> Raise("ValueError"), form |-> EmbeddedCleaned(f), parent |-> p]
    ELSE [result |-> AddToParent(EmbeddedCleaned(f), p).result,
          form |-> EmbeddedCleaned(f),
          parent |-> AddToParent(EmbeddedCleaned(f), p).parent]

\* EmbeddedDocumentForm.save(commit)
EmbeddedDocumentForm_save(f, p, commit) ==
    IF EmbeddedErrors(f)
    THEN [result |-> Raise("ValueError"), form |-> EmbeddedCleaned(f), parent |-> p]
    ELSE IF commit
    THEN [result |-> AddToParent(EmbeddedCleaned(f), p).result,
          form |-> EmbeddedCleaned(f),
          parent |-> AddToParent(EmbeddedCleaned(f), p).parent]
    ELSE [result |-> Val(EmbeddedCleaned(f).instance), form |-> EmbeddedCleaned(f),
          parent |-> p]

\* form.is_valid()
EmbeddedIsValid ==
    /\ embCall' = [op |-> "is_valid", commit |-> FALSE, form |-> embForm, parent |-> parent]
    /\ embForm' = EmbeddedCleaned(embForm)
    /\ embResult' = Bool(~EmbeddedErrors(embForm))
    /\ UNCHANGED parent
    /\ UNCHANGED otherThanEmb

\* form.save(commit)
EmbeddedSave(commit) ==
    /\ Len(parent.calls) < MaxParentCalls
    /\ embCall' = [op |-> "save", commit |-> commit, form |-> embForm, parent |-> parent]
    /\ embForm' = EmbeddedDocumentForm_save(embForm, parent, commit).form
    /\ parent' = EmbeddedDocumentForm_save(embForm, parent, commit).parent
    /\ embResult' = EmbeddedDocumentForm_save(embForm, parent, commit).result
    /\ UNCHANGED otherThanEmb

IdleEmb ==
    /\ parent = [comments |-> <<>>, profile |-> "None", updateFails |-> FALSE,
                 saveRaises |-> FALSE, calls |-> <<>>]
    /\ embForm = EmbeddedForm("None", "None", NoPosition, "unbound", TRUE)
    /\ embCall = [op |-> "none"]
    /\ embResult = None

\* -------------------------------------------- documents.py: BaseDocumentFormSet

\* a form of a formset: form.has_changed(), cleaned_data.get("DELETE"), whether
\* form.errors is non-empty, and the calls made on its instance so far
FormsetForms ==
    [changed : BOOLEAN, delete : BOOLEAN, errors : BOOLEAN, saves : {0}, deletes : {0}]

\* a formset: bound or not (the forms of an unbound formset have no errors
\* and no cleaned_data), of documents or of embedded documents, which have no
\* save and no delete method; the first initial_form_count forms are the
\* initial forms
FormsetSamples ==
    {fs \in [forms : SeqsUpTo(FormsetForms, MaxForms), bound : BOOLEAN,
             embedded : BOOLEAN, initial_form_count : 0 .. MaxForms, calls : {0}] :
        /\ fs.initial_form_count <= Len(fs.forms)
        /\ ~fs.bound => \A k \in DOMAIN fs.forms :
                           ~fs.forms[k].errors /\ ~fs.forms[k].delete}

\* `if not form.has_changed() and form not in self.initial_forms: continue`
Passed(fs, k) == ~fs.forms[k].changed /\ k > fs.initial_form_count

\* what the body of the loop raises for form k, "" for nothing: form.save
\* raises ValueError, form.cleaned_data AttributeError on an unbound form,
\* obj.save() AttributeError on an embedded document
RaisedBy(fs, k, commit) ==
    IF fs.forms[k].errors THEN "ValueError"
    ELSE IF ~fs.bound THEN "AttributeError"
    ELSE IF fs.forms[k].delete /\ fs.embedded THEN ""
    ELSE IF commit /\ fs.embedded THEN "AttributeError"
    ELSE ""

\* form k after the body of the loop: obj.delete() and obj.save() called
SavedForm(fs, k, commit) ==
    IF fs.forms[k].errors \/ ~fs.bound \/ fs.embedded THEN fs.forms[k]
    ELSE [fs.forms[k] EXCEPT
             !.deletes = IF fs.forms[k].delete THEN @ + 1 ELSE @,
             !.saves = IF commit THEN @ + 1 ELSE @]

\* whether the loop appends the instance of form k to `saved`
Appends(fs, k, commit) ==
    RaisedBy(fs, k, commit) = "" /\ ~(fs.forms[k].delete /\ fs.embedded)

\* the loop of BaseDocumentFormSet.save appending the instance of every form
\* it saves, marked for deletion or not
RECURSIVE SaveForms_KeepDeleted(_, _, _, _)
SaveForms_KeepDeleted(fs, k, commit, saved) ==
    IF k > Len(fs.forms) THEN [result |-> [tag |-> "list", items |-> saved], formset |-> fs]
    ELSE IF Passed(fs, k) THEN SaveForms_KeepDeleted(fs, k + 1, commit, saved)
    ELSE IF RaisedBy(fs, k, commit) # ""
    THEN [result |-> Raise(RaisedBy(fs, k, commit)), formset |-> fs]
    ELSE SaveForms_KeepDeleted([fs EXCEPT !.forms[k] = SavedForm(fs, k, commit)], k + 1,
                               commit, Append(saved, k))

\* the loop of BaseDocumentFormSet.save from form k on: the list of the
\* instances (named by the index of their form) or the exception, and the formset
RECURSIVE SaveForms(_, _, _, _)
SaveForms(fs, k, commit, saved) ==
    IF k > Len(fs.forms) THEN [result |-> [tag |-> "list", items |-> saved], formset |-> fs]
    ELSE IF Passed(fs, k) THEN SaveForms(fs, k + 1, commit, saved)
    ELSE IF RaisedBy(fs, k, commit) # ""
    THEN [result |-> Raise(RaisedBy(fs, k, commit)), formset |-> fs]
    ELSE SaveForms([fs EXCEPT !.forms[k] = SavedForm(fs, k, commit)], k + 1, commit,
                   IF Appends(fs, k, commit) THEN Append(saved, k) ELSE saved)

\* formset.save(commit)
FormSetSave(commit) ==
    /\ formset.calls < MaxFormSetSaves
    /\ fsCall' = [op |-> "save", commit |-> commit, formset |-> formset]
    /\ formset' = [SaveForms(formset, 1, commit, <<>>).formset EXCEPT !.calls = @ + 1]
    /\ fsResult' = SaveForms(formset, 1, commit, <<>>).result
    /\ UNCHANGED otherThanFormSet

IdleFormSet ==
    /\ formset = [forms |-> <<>>, bound |-> FALSE, embedded |-> FALSE,
                  initial_form_count |-> 0, calls |-> 0]
    /\ fsCall = [op |-> "none"]
    /\ fsResult = None

\* ------------------------------- documents.py: BaseDocumentForm validation

NON_FIELD_ERRORS == "__all__"

\* the fields of the form's document, in _fields_ordered order
ValFieldNames == <<"title", "body">>
ValFields == {ValFieldNames[k] : k \in DOMAIN ValFieldNames}

\* the message lists of a message_dict
MessageLists == SeqsUpTo({"m1"}, MaxMessages)

\* the message dicts _update_errors is called with: field-level lists, the
\* non-field list, or both
MessageDicts ==
    {md \in DictSet({"title", NON_FIELD_ERRORS}, MessageLists) :
        "title" \in DOMAIN md => md["title"] # <<>>}
    \cup {[body |-> <<"m1">>, title |-> <<"m2">>]}

\* the message dict of the calls made on the forms of every class
SomeMessages == [n \in {"title", NON_FIELD_ERRORS} |-> <<"m1">>]

\* the keys of a dict in the order its items() are visited
RECURSIVE KeysInOrder(_)
KeysInOrder(K) ==
    IF K = {} THEN <<>>
    ELSE LET k == CHOOSE x \in K : TRUE IN <<k>> \o KeysInOrder(K \ {k})

\* self._errors.setdefault(k, self.error_class()).extend(v), overwriting what
\* was recorded
Extended_Overwrite(errors, k, v) == DictPut(errors, k, v)

\* self._errors.setdefault(k, self.error_class()).extend(v)
Extended(errors, k, v) ==
    DictPut(errors, k, (IF k \in DOMAIN errors THEN errors[k] ELSE <<>>) \o v)

\* one round of the loop of _update_errors, for the item (k, v)
UpdateErrorsItem(f, k, v) ==
    IF k # NON_FIELD_ERRORS
    THEN [f EXCEPT !.errors = Extended(f.errors, k, v),
                   !.cleaned_data = IF k \in DOMAIN f.cleaned_data
                                    THEN DictDel(f.cleaned_data, k)
                                    ELSE f.cleaned_data]
    ELSE f

RECURSIVE UpdateErrorsLoop(_, _, _)
UpdateErrorsLoop(f, message_dict, keys) ==
    IF keys = <<>> THEN f
    ELSE UpdateErrorsLoop(UpdateErrorsItem(f, Head(keys), message_dict[Head(keys)]),
                          message_dict, Tail(keys))

\* BaseDocumentForm._update_errors(message_dict): the form afterwards
_update_errors(f, message_dict) ==
    IF NON_FIELD_ERRORS \in DOMAIN message_dict
    THEN [UpdateErrorsLoop(f, message_dict, KeysInOrder(DOMAIN message_dict))
            EXCEPT !.errors = Extended(@, NON_FIELD_ERRORS,
                                       message_dict[NON_FIELD_ERRORS])]
    ELSE UpdateErrorsLoop(f, message_dict, KeysInOrder(DOMAIN message_dict))

EMPTY_VALUES == {"None", ""}

\* how the form class defines clean(): not at all (BaseDocumentForm.clean), an
\* override that calls the base clean, or one that does not; an override may
\* raise a ValidationError of its own
CleanKinds == {"base", "super", "super_raises", "nosuper", "nosuper_raises"}
CallsBaseClean(kind) == kind \in {"base", "super", "super_raises"}
CleanRaises(kind) == kind \in {"super_raises", "nosuper_raises"}

\* what the form class and the submitted data are: the names of self.fields,
\* Meta.fields and Meta.exclude, the data, and the names whose form field
\* rejects its data
FormConfigs ==
    {cfg \in [clean : CleanKinds,
              fields : {{"title", "body"}, {"title"}},
              meta_fields : {NoList},
              meta_exclude : {NoList, List(<<"body">>)},
              data : {[title |-> "v", body |-> "v"], [title |-> "", body |-> "v"]},
              rejects : {{}, {"title"}, {"body"}}] :
        Truthy(cfg.meta_exclude) => cfg.fields = {"title", "body"}}

\* the form classes _update_errors is tried on with every message dict
PlainConfigs ==
    {cfg \in FormConfigs :
        /\ cfg.clean = "base"
        /\ cfg.fields = {"title", "body"}
        /\ cfg.meta_exclude = NoList
        /\ cfg.data.title = "v"}

\* BaseDocumentForm.__init__ for a bound form: _errors is None and there is no
\* cleaned_data until full_clean runs (cleaned); baseCleanRan and uniqueCalls
\* record the calls of BaseDocumentForm.clean and of validate_unique
BaseDocumentForm_init(cfg) ==
    [tag |-> "form", errors |-> EmptyDict, cleaned_data |-> EmptyDict, cleaned |-> FALSE,
     _validate_unique |-> FALSE, clean |-> cfg.clean, fields |-> cfg.fields,
     meta_fields |-> cfg.meta_fields, meta_exclude |-> cfg.meta_exclude,
     data |-> cfg.data, rejects |-> cfg.rejects,
     baseCleanRan |-> FALSE, uniqueCalls |-> 0]

NotSeen == [given |-> FALSE, items |-> <<>>]

\* form.instance: its _fields_ordered and values, the required fields, the
\* fields whose validate() rejects the value, the unique fields another
\* document already holds the value of, what the document's clean() hook does,
\* and the _fields_ordered its validate() saw when it last ran
ValInstanceSamples ==
    [tag : {"document"},
     _fields_ordered : {ValFieldNames},
     values : {[title |-> "None", body |-> ""]},
     changed : {{}},
     required : {{"body"}},
     invalid : {{}, {"title"}, {"body"}},
     duplicates : {{}, {"title"}},
     hook : {"ok", "non_field", "error"},
     seen : {NotSeen}]

\* the test _get_validation_exclusions makes for the field named n
ValidationExcluded(f, i, n) ==
    \/ n \notin f.fields
    \/ Truthy(f.meta_fields) /\ n \notin Items(f.meta_fields)
    \/ Truthy(f.meta_exclude) /\ n \in Items(f.meta_exclude)
    \/ n \in DOMAIN f.errors
    \/ /\ n \notin i.required
       /\ (IF n \in DOMAIN f.cleaned_data THEN f.cleaned_data[n] ELSE "None")
              \in EMPTY_VALUES

\* BaseDocumentForm._get_validation_exclusions: the names, as a set
_get_validation_exclusions(f, i) ==
    {n \in Items(List(i._fields_ordered)) : ValidationExcluded(f, i, n)}

\* construct_instance as _post_clean calls it: the instance afterwards
ValConstructed(f, i) ==
    [i EXCEPT !.values = [n \in DOMAIN @ |->
                             IF Taken(f, n, f.meta_fields, f.meta_exclude)
                             THEN f.cleaned_data[n] ELSE @[n]],
              !.changed = @ \cup {n \in DOMAIN i.values :
                                     Taken(f, n, f.meta_fields, f.meta_exclude)}]

\* the loop of _post_clean over the instance's fields, from field k on: a
\* field that is not excluded is validated, and the first ValidationError ends
\* the loop and is recorded; an excluded empty field that was not changed is
\* set to None
RECURSIVE ValidateFields(_, _, _, _)
ValidateFields(f, i, exclude, k) ==
    IF k > Len(ValFieldNames) THEN [form |-> f, instance |-> i]
    ELSE IF ValFieldNames[k] \notin exclude
    THEN IF ValFieldNames[k] \in i.invalid
         THEN [form |-> _update_errors(f, [n \in {ValFieldNames[k]} |-> <<"invalid">>]),
               instance |-> i]
         ELSE ValidateFields(f, i, exclude, k + 1)
    ELSE IF i.values[ValFieldNames[k]] \in EMPTY_VALUES /\ ValFieldNames[k] \notin i.changed
    THEN ValidateFields(f, [i EXCEPT !.values[ValFieldNames[k]] = "None"], exclude, k + 1)
    ELSE ValidateFields(f, i, exclude, k + 1)

\* the tuple _post_clean puts in place of instance._fields_ordered
WithoutExcluded(fields_ordered, exclude) ==
    LET Kept(n) == n \notin exclude IN SelectSeq(fields_ordered, Kept)

Narrowed(i, exclude) ==
    [i EXCEPT !._fields_ordered = WithoutExcluded(@, exclude)]

\* instance.validate(): the document's clean() hook runs, then the fields
\* named in _fields_ordered are validated.  "ok", the error of the
\* ValidationError it raises (its non-field errors, or else its message), or
\* "Exception" when the hook raises something else
DocumentValidate(i) ==
    IF i.hook = "error" THEN "Exception"
    ELSE IF i.hook = "non_field" THEN "non_field"
    ELSE IF \E k \in DOMAIN i._fields_ordered : i._fields_ordered[k] \in i.invalid
    THEN "message"
    ELSE "ok"

\* the finally clause leaving the narrowed tuple when validate() raised
Restored_OnSuccess(i, original_fields, outcome) ==
    IF outcome = "ok" THEN [i EXCEPT !._fields_ordered = original_fields] ELSE i

\* the finally clause: instance._fields_ordered = original_fields
Restored(i, original_fields, outcome) ==
    [i EXCEPT !._fields_ordered = original_fields]

\* the try statement around instance.validate(), which ran on the narrowed
\* instance i with the given outcome
ValidatedDocument(f, i, original_fields, outcome) ==
    [form |-> IF outcome \in {"message", "non_field"}
              THEN _update_errors(f, [n \in {NON_FIELD_ERRORS} |-> <<outcome>>])
              ELSE f,
     instance |-> Restored([i EXCEPT !.seen = List(i._fields_ordered)],
                           original_fields, outcome),
     raised |-> outcome = "Exception"]

DocumentValidated(r, exclude) ==
    ValidatedDocument(r.form, Narrowed(r.instance, exclude), r.instance._fields_ordered,
                      DocumentValidate(Narrowed(r.instance, exclude)))

\* the loop of validate_unique from field k on
RECURSIVE UniqueLoop(_, _, _, _)
UniqueLoop(f, i, exclude, k) ==
    IF k > Len(ValFieldNames) THEN f
    ELSE IF ValFieldNames[k] \in i.duplicates /\ ValFieldNames[k] \notin exclude
    THEN UniqueLoop(_update_errors(f, [n \in {ValFieldNames[k]} |-> <<"unique">>]),
                    i, exclude, k + 1)
    ELSE UniqueLoop(f, i, exclude, k + 1)

\* BaseDocumentForm.validate_unique: the form afterwards
validate_unique(f, i) ==
    [UniqueLoop(f, i, _get_validation_exclusions(f, i), 1)
        EXCEPT !.uniqueCalls = @ + 1]

\* the end of _post_clean calling validate_unique whatever the flag is
UniqueValidated_Always(r) ==
    IF r.raised THEN r
    ELSE [r EXCEPT !.form = validate_unique(r.form, r.instance)]

\* the end of _post_clean: if self._validate_unique: self.validate_unique()
UniqueValidated(r) ==
    IF r.raised \/ ~r.form._validate_unique THEN r
    ELSE [r EXCEPT !.form = validate_unique(r.form, r.instance)]

PostCleanWith(f, i, exclude) ==
    UniqueValidated(DocumentValidated(ValidateFields(f, i, exclude, 1), exclude))

PostCleanFrom(f, i) == PostCleanWith(f, i, _get_validation_exclusions(f, i))

\* BaseDocumentForm._post_clean: the form and instance afterwards, and whether
\* an exception left it
_post_clean(f, i) == PostCleanFrom(f, ValConstructed(f, i))

\* BaseForm._clean_fields: a field's cleaned value goes into cleaned_data, or
\* its error into _errors
_clean_fields(f) ==
    [f EXCEPT !.errors = [n \in f.fields \cap f.rejects |-> <<"rejected">>],
              !.cleaned_data = [n \in f.fields \ f.rejects |-> f.data[n]],
              !.cleaned = TRUE]

\* BaseDocumentForm.clean
BaseDocumentForm_clean(f) ==
    [f EXCEPT !._validate_unique = TRUE, !.baseCleanRan = TRUE]

\* self.clean(): the class's override, which may call the base clean
CleanCalled(f) == IF CallsBaseClean(f.clean) THEN BaseDocumentForm_clean(f) ELSE f

\* BaseForm._clean_form: a ValidationError of clean() becomes the non-field errors
_clean_form(f) ==
    IF CleanRaises(f.clean)
    THEN [CleanCalled(f) EXCEPT !.errors = DictPut(@, NON_FIELD_ERRORS, <<"form">>)]
    ELSE CleanCalled(f)

\* BaseForm.full_clean on a bound form
full_clean(f, i) == _post_clean(_clean_form(_clean_fields(f)), i)

\* the calls: the message dict is the argument of _update_errors
ValArgs == [op : {"none"}, message_dict : MessageDicts]

ValRecord(op) ==
    /\ valOps < MaxValOps
    /\ valOps' = valOps + 1
    /\ valCall' = [op |-> op, message_dict |-> valCall.message_dict,
                   form |-> valForm, instance |-> valInstance]
    /\ UNCHANGED otherThanVal

\* form.full_clean(), as is_valid() and errors run it
ValFullClean ==
    /\ valForm' = full_clean(valForm, valInstance).form
    /\ valInstance' = full_clean(valForm, valInstance).instance
    /\ valResult' = IF full_clean(valForm, valInstance).raised THEN Raise("Exception")
                    ELSE None
    /\ ValRecord("full_clean")

\* form.clean() called on the form: without cleaned_data the base clean
\* raises AttributeError after setting the flag, an override before it
ValClean ==
    /\ valForm' = IF valForm.cleaned \/ CallsBaseClean(valForm.clean)
                  THEN CleanCalled(valForm) ELSE valForm
    /\ valResult' = IF ~valForm.cleaned THEN Raise("AttributeError")
                    ELSE IF CleanRaises(valForm.clean) THEN Raise("ValidationError")
                    ELSE None
    /\ UNCHANGED valInstance
    /\ ValRecord("clean")

\* form._update_errors(message_dict) on a form that full_clean has run on, as
\* _post_clean and validate_unique call it
UpdateErrors ==
    /\ valForm.cleaned
    /\ valForm' = _update_errors(valForm, valCall.message_dict)
    /\ valResult' = None
    /\ UNCHANGED valInstance
    /\ ValRecord("_update_errors")

\* ----------------------------------- documents.py: embeddedformset_factory

\* the fields a parent document may have: name, class, the class of the
\* field a ListField contains, and the embedded document type
FacFieldPool ==
    <<[name |-> "comments", class |-> "ListField", field |-> "EmbeddedDocumentField",
       document_type |-> "Comment"],
      [name |-> "comment", class |-> "EmbeddedDocumentField", field |-> "",
       document_type |-> "Comment"],
      [name |-> "author", class |-> "EmbeddedDocumentField", field |-> "",
       document_type |-> "Author"],
      [name |-> "tags", class |-> "ListField", field |-> "StringField",
       document_type |-> ""],
      [name |-> "title", class |-> "StringField", field |-> "", document_type |-> ""]>>

\* parent_doc._fields.values(): some fields of the pool, in the pool's order
FacParents ==
    {LET Has(f) == f.name \in N IN SelectSeq(FacFieldPool, Has) :
        N \in {M \in SUBSET {FacFieldPool[k].name : k \in DOMAIN FacFieldPool} :
                  Cardinality(M) <= MaxFacFields}}

\* the calls embeddedformset_factory(document, parent_document, embedded_name=,
\* max_num=); an embedded_name of "" is None
FacArgs ==
    [op : {"none"}, document : {"Comment"}, parent_document : FacParents,
     embedded_name : {"", "comments", "comment", "author", "tags", "missing"},
     max_num : {None, IntV(1), IntV(3)}]

IsEmbeddedTo(field, document) ==
    field.class = "EmbeddedDocumentField" /\ field.document_type = document

IsListOfEmbeddedTo(field, document) ==
    /\ field.class = "ListField"
    /\ field.field = "EmbeddedDocumentField"
    /\ field.document_type = document

\* the test _get_embedded_field makes on the field found by emb_name
WrongEmbeddedField(field, document) ==
    \/ field.class \notin {"EmbeddedDocumentField", "ListField"}
    \/ field.class = "EmbeddedDocumentField" /\ field.document_type # document
    \/ /\ field.class = "ListField"
       /\ field.field = "EmbeddedDocumentField"
       /\ field.document_type # document

\* the branch for a given emb_name: `field` is bound only when one field has
\* that name, and the test for no such field is never reached
NamedEmbeddedField(emb_fields, document) ==
    IF Len(emb_fields) = 1
    THEN IF WrongEmbeddedField(emb_fields[1], document) THEN Raise("Exception")
         ELSE Val(emb_fields[1])
    ELSE Raise("UnboundLocalError")

\* the branch for no emb_name: the condition of the list comprehension tests
\* `field`, which is not bound yet, instead of f, so that its first evaluation
\* raises NameError; without any field the list is empty
SingleEmbeddedField(parent_doc, document, can_fail) ==
    IF parent_doc # <<>> THEN Raise("NameError")
    ELSE IF can_fail THEN None
    ELSE Raise("Exception")

\* _get_embedded_field(parent_doc, document, emb_name, can_fail)
_get_embedded_field(parent_doc, document, emb_name, can_fail) ==
    IF emb_name # ""
    THEN LET Named(f) == f.name = emb_name
         IN  NamedEmbeddedField(SelectSeq(parent_doc, Named), document)
    ELSE SingleEmbeddedField(parent_doc, document, can_fail)

\* the FormSet class made for the field found
FormSetFor(emb_field, document, max_num) ==
    IF emb_field.tag # "value" THEN emb_field
    ELSE [tag |-> "formset", document |-> document,
          embedded_field |-> emb_field.val.name,
          max_num |-> IF emb_field.val.class = "EmbeddedDocumentField" THEN IntV(1)
                      ELSE max_num]

\* embeddedformset_factory(document, parent_document, embedded_name, max_num)
embeddedformset_factory(document, parent_document, embedded_name, max_num) ==
    FormSetFor(_get_embedded_field(parent_document, document, embedded_name, FALSE),
               document, max_num)

EmbeddedFormsetFactory ==
    /\ facCall.op = "none"
    /\ facCall' = [facCall EXCEPT !.op = "embeddedformset_factory"]
    /\ facResult' = embeddedformset_factory(facCall.document, facCall.parent_document,
                                            facCall.embedded_name, facCall.max_num)
    /\ UNCHANGED otherThanFac

\* ------------------------------------------------------ fields.py: ListField

\* the values clean() is given: None, a value that is no list, or a list of
\* submitted strings ("" is empty, "bad" is rejected by the contained field)
CleanInputs ==
    {[kind |-> "None", items |-> <<>>], [kind |-> "other", items |-> <<>>]}
    \cup {[kind |-> "list", items |-> q] : q \in SeqsUpTo({"", "a", "bad"}, MaxValues)}

\* ListField(contained_field, required=...): the contained field is made with
\* the list field's required, or is a field instance with its own
ListFields == [tag : {"ListField"}, required : BOOLEAN, contained_required : BOOLEAN]

ValidationErrorOf(messages) ==
    [tag |-> "raise", exc |-> "ValidationError", messages |-> messages]
Cleaned(items) == [tag |-> "list", items |-> items, messages |-> <<>>]

\* self.contained_field.clean(field_value), with the contained field's
\* required as it is now: the message of its ValidationError, or ""
ContainedError(required, field_value) ==
    IF field_value = "" THEN (IF required THEN "required" ELSE "")
    ELSE IF field_value = "bad" THEN "invalid"
    ELSE ""

\* the loop of clean() from element k on: each element is cleaned by the
\* contained field, the messages of the errors are collected, and after each
\* element a required contained field is made not required
RECURSIVE CleanLoop(_, _, _, _, _)
CleanLoop(lf, items, k, clean_data, errors) ==
    IF k > Len(items)
    THEN [field |-> lf,
          result |-> IF errors # <<>> THEN ValidationErrorOf(errors) ELSE Cleaned(clean_data)]
    ELSE IF ContainedError(lf.contained_required, items[k]) # ""
    THEN CleanLoop([lf EXCEPT !.contained_required = FALSE], items, k + 1, clean_data,
                   Append(errors, ContainedError(lf.contained_required, items[k])))
    ELSE CleanLoop([lf EXCEPT !.contained_required = FALSE], items, k + 1,
                   Append(clean_data, items[k]), errors)

\* not value or not [v for v in value if v not in self.empty_values]
NothingGiven(value) ==
    \/ value.kind = "None"
    \/ value.kind = "list" /\ \A k \in DOMAIN value.items : value.items[k] = ""

\* ListField.clean(value): the field afterwards and what it returns or raises
ListField_clean(lf, value) ==
    IF NothingGiven(value)
    THEN [field |-> lf,
          result |-> IF lf.required THEN ValidationErrorOf(<<"required">>)
                     ELSE Cleaned(<<>>)]
    ELSE IF value.kind # "list"
    THEN [field |-> lf, result |-> ValidationErrorOf(<<"invalid">>)]
    ELSE CleanLoop(lf, value.items, 1, <<>>, <<>>)

\* field.clean(value), on the field object the form class holds
ListFieldClean(value) ==
    /\ lfCall.calls < MaxCleanCalls
    /\ listField' = ListField_clean(listField, value).field
    /\ lfResult' = ListField_clean(listField, value).result
    /\ lfCall' = [op |-> "clean", value |-> value, calls |-> lfCall.calls + 1]
    /\ lfSeen' = IF value \in DOMAIN lfSeen THEN lfSeen
                 ELSE DictPut(lfSeen, value, ListField_clean(listField, value).result)
    /\ UNCHANGED otherThanListField

IdleVal ==
    /\ valForm = [tag |-> "none"]
    /\ valInstance = [tag |-> "none"]
    /\ valCall = [op |-> "none"]
    /\ valResult = None
    /\ valOps = 0

IdleFac ==
    /\ facCall = [op |-> "none"]
    /\ facResult = None

IdleListField ==
    /\ listField = [tag |-> "none"]
    /\ lfCall = [op |-> "none", calls |-> 0]
    /\ lfResult = None
    /\ lfSeen = EmptyDict

IdleGen ==
    /\ form_field_map = DefaultFormFieldMap
    /\ widget_override_map = DefaultWidgetOverrideMap
    /\ generators = 0
    /\ genCall = [op |-> "none"]
    /\ genResult = None

\* LazyDocumentMetaWrapper(document): nothing is set up yet
IdleMeta ==
    /\ meta = EmptyDict
    /\ lazyDoc = "TestDocument"
    /\ wrapped = "empty"
    /\ inst = EmptyDict
    /\ docGlue = {}
    /\ metaBefore = EmptyDict
    /\ instBefore = EmptyDict
    /\ lastOp = [op |-> "init", key |-> "", val |-> ""]
    /\ lastResult = None
    /\ opCount = 0

InitMeta ==
    /\ IdleGen
    /\ IdleDoc
    /\ IdleSave
    /\ IdleEmb
    /\ IdleFormSet
    /\ IdleVal /\ IdleFac /\ IdleListField
    /\ meta \in InitialMetas
    /\ lazyDoc = "TestDocument"
    /\ wrapped = "empty"
    /\ inst = EmptyDict
    /\ docGlue = {}
    /\ metaBefore = meta
    /\ instBefore = EmptyDict
    /\ lastOp = [op |-> "init", key |-> "", val |-> ""]
    /\ lastResult = None
    /\ opCount = 0

NextMeta ==
    \/ \E k \in MetaKeys : LazyGetItem(k)
    \/ \E k \in MetaKeys, v \in MetaValues : LazySetItem(k, v)
    \/ \E k \in MetaKeys : LazyDelItem(k)
    \/ LazyLen
    \/ \E k \in MetaKeys : LazyContains(k)
    \/ \E k \in MetaKeys : LazyGet(k)
    \/ \E n \in AttrNames : LazyGetAttr(n)
    \/ \E n \in AttrNames, v \in MetaValues : LazySetAttr(n, v)
    \/ \E d \in Documents : LazySetDocument(d)

SpecMeta == InitMeta /\ [][NextMeta]_vars

InitGen ==
    /\ IdleGen /\ IdleMeta /\ IdleDoc /\ IdleSave /\ IdleEmb /\ IdleFormSet
    /\ IdleVal /\ IdleFac /\ IdleListField

NextGen ==
    \/ \E fo \in FieldOverrides, wo \in WidgetOverrides : NewGenerator(fo, wo)
    \/ \E gen \in {"base", "default"}, f \in FieldSamples, kw \in {"", "HiddenInput"} :
          GenerateCall(gen, f, kw)

SpecGen == InitGen /\ [][NextGen]_vars

InitDoc ==
    /\ IdleMeta
    /\ IdleGen
    /\ IdleSave
    /\ IdleEmb
    /\ IdleFormSet
    /\ IdleVal /\ IdleFac /\ IdleListField
    /\ doc \in DocSamples
    /\ docMeta = "dict"
    /\ docCall \in ArgSamples
    /\ docResult = None

NextDoc ==
    \/ GetFieldByName
    \/ GetField
    \/ FieldsForDocument
    \/ NewFormClass

SpecDoc == InitDoc /\ [][NextDoc]_vars

InitSave ==
    /\ IdleMeta
    /\ IdleGen
    /\ IdleDoc
    /\ IdleEmb
    /\ IdleFormSet
    /\ IdleVal /\ IdleFac /\ IdleListField
    /\ form \in FormSamples
    /\ instance \in InstanceSamples
    /\ saveCalls = 0
    /\ gridfs = 0
    /\ saveCall = [op |-> "none"]
    /\ saveResult = None
    /\ saveOps = 0

NextSave ==
    \/ FormErrors
    \/ ConstructInstance
    \/ \E commit \in BOOLEAN, construct \in BOOLEAN : SaveInstance(commit, construct)
    \/ \E commit \in BOOLEAN : FormSave(commit)

SpecSave == InitSave /\ [][NextSave]_vars

\* the forms EmbeddedDocumentForm.__init__ makes for a parent document
InitEmb ==
    /\ IdleMeta
    /\ IdleGen
    /\ IdleDoc
    /\ IdleSave
    /\ IdleFormSet
    /\ IdleVal /\ IdleFac /\ IdleListField
    /\ parent \in ParentSamples
    /\ \E embedded_field \in EmbeddedFieldNames, given \in EmbeddedDocs \cup {"None"},
          position \in Positions, state \in {"unbound", "bound"}, valid \in BOOLEAN :
          /\ embForm = EmbeddedDocumentForm_init(parent, embedded_field, given, position,
                                                 state, valid)
          /\ embForm.tag = "form"
    /\ embCall = [op |-> "none"]
    /\ embResult = None

NextEmb ==
    \/ EmbeddedIsValid
    \/ \E commit \in BOOLEAN : EmbeddedSave(commit)

SpecEmb == InitEmb /\ [][NextEmb]_vars

InitFormSet ==
    /\ IdleMeta
    /\ IdleGen
    /\ IdleDoc
    /\ IdleSave
    /\ IdleEmb
    /\ IdleVal /\ IdleFac /\ IdleListField
    /\ formset \in FormsetSamples
    /\ fsCall = [op |-> "none"]
    /\ fsResult = None

NextFormSet == \E commit \in BOOLEAN : FormSetSave(commit)

SpecFormSet == InitFormSet /\ [][NextFormSet]_vars

InitVal ==
    /\ IdleMeta /\ IdleGen /\ IdleDoc /\ IdleSave /\ IdleEmb /\ IdleFormSet
    /\ IdleFac /\ IdleListField
    /\ valInstance \in ValInstanceSamples
    /\ valCall \in ValArgs
    /\ \E cfg \in FormConfigs :
          /\ valForm = BaseDocumentForm_init(cfg)
          /\ \/ valCall.message_dict = SomeMessages
             \/ cfg \in PlainConfigs /\ valInstance.hook = "ok"
    /\ valResult = None
    /\ valOps = 0

NextVal ==
    \/ ValFullClean
    \/ ValClean
    \/ UpdateErrors

SpecVal == InitVal /\ [][NextVal]_vars

InitFac ==
    /\ IdleMeta /\ IdleGen /\ IdleDoc /\ IdleSave /\ IdleEmb /\ IdleFormSet
    /\ IdleVal /\ IdleListField
    /\ facCall \in FacArgs
    /\ facResult = None

NextFac == EmbeddedFormsetFactory

SpecFac == InitFac /\ [][NextFac]_vars

InitListField ==
    /\ IdleMeta /\ IdleGen /\ IdleDoc /\ IdleSave /\ IdleEmb /\ IdleFormSet
    /\ IdleVal /\ IdleFac
    /\ listField \in ListFields
    /\ lfCall = [op |-> "none", value |-> [kind |-> "None", items |-> <<>>], calls |-> 0]
    /\ lfResult = None
    /\ lfSeen = EmptyDict

NextListField == \E value \in CleanInputs : ListFieldClean(value)

SpecListField == InitListField /\ [][NextListField]_vars

\* ------------------------------------------------------------ claims C1, C2

\* the last operation was the first one on a freshly constructed lazy wrapper
FirstOp(op) == opCount = 1 /\ lastOp.op = op

(* C1: on a freshly constructed LazyDocumentMetaWrapper over a document whose
   meta dict is M, each of meta[k], meta.get(k), `k in meta` and len(meta),
   performed as the very first operation, gives the result of the same
   operation on M. *)
C1_FirstOpAnswersFromMeta ==
    /\ FirstOp("getitem") /\ lastOp.key \in DOMAIN metaBefore
          => lastResult = Val(metaBefore[lastOp.key])
    /\ FirstOp("get") /\ lastOp.key \in DOMAIN metaBefore
          => lastResult = Val(metaBefore[lastOp.key])
    /\ FirstOp("contains") => lastResult = Bool(lastOp.key \in DOMAIN metaBefore)
    /\ FirstOp("len") => lastResult = IntV(Cardinality(DOMAIN metaBefore))

\* the last operation set attribute lastOp.key on the wrapper itself
SetAttrDone == lastOp.op = "setattr" /\ lastOp.key # "_document"

\* the name was no attribute of the wrapper when it was set
WasNoAttr ==
    lastOp.key \notin ClassAttrs \cup Properties \cup DOMAIN DeprecatedAttrs
                      \cup DOMAIN metaBefore \cup DOMAIN instBefore

(* C2 as stated: setting a name that is not already an attribute of the
   wrapper stores the value in the meta dict and reading it returns the value;
   setting a name the wrapper already defines changes the wrapper attribute
   and adds no key to the meta dict. *)
C2_SetAttrAsStated ==
    SetAttrDone =>
        /\ WasNoAttr =>
              /\ meta = DictPut(metaBefore, lastOp.key, lastOp.val)
              /\ WrapperGetAttr(inst, meta, lastOp.key)[1] = Val(lastOp.val)
        /\ lastOp.key \in ClassAttrs \cup Properties =>
              /\ WrapperGetAttr(inst, meta, lastOp.key)[1] = Val(lastOp.val)
              /\ meta = metaBefore

(* C2 amended: setting a name that is not already an attribute of the wrapper
   stores the value in the meta dict and reading it returns the value; setting
   a name that already is an attribute changes the wrapper attribute and
   leaves the meta dict as it was, unless the name is one of the wrapper's
   read-only properties (verbose_name), where the assignment raises
   AttributeError and changes neither the attribute nor the meta dict. *)
C2_SetAttr ==
    SetAttrDone =>
        /\ WasNoAttr =>
              /\ lastResult = None
              /\ meta = DictPut(metaBefore, lastOp.key, lastOp.val)
              /\ lastOp.key \notin DOMAIN inst
              /\ WrapperGetAttr(inst, meta, lastOp.key)[1] = Val(lastOp.val)
        /\ ~WasNoAttr /\ lastOp.key \notin Properties =>
              /\ lastResult = None
              /\ lastOp.key \in DOMAIN inst /\ inst[lastOp.key] = Val(lastOp.val)
              /\ WrapperGetAttr(inst, meta, lastOp.key)[1] = Val(lastOp.val)
              /\ meta = metaBefore
        /\ lastOp.key \in Properties =>
              /\ lastResult = Raise("AttributeError")
              /\ lastOp.key \notin DOMAIN inst
              /\ WrapperGetAttr(inst, meta, lastOp.key)[1] # Val(lastOp.val)
              /\ meta = metaBefore

\* meta.custom = v as the first operation on a lazy wrapper whose dict has no 'custom'
C2_Witness ==
    /\ FirstOp("setattr") /\ lastOp.key = "custom"
    /\ "custom" \notin DOMAIN metaBefore
    /\ "custom" \in DOMAIN meta /\ meta["custom"] = lastOp.val

\* ------------------------------------------------------------- claims C3, C4
Called(op) == docCall.op = op
NameKnown == docCall.name \in FieldNames(doc)

\* C3: get_field(name) and get_field_by_name(name) return the document's field
\* object for every name in document._fields and raise FieldDoesNotExist for
\* every other name; the m2m element of the get_field_by_name tuple is False.
C3_GetField ==
    /\ Called("get_field_by_name") =>
          IF NameKnown
          THEN /\ docResult.tag = "tuple"
               /\ docResult.field = FieldOf(doc, docCall.name)
               /\ docResult.field.name = docCall.name
               /\ docResult.m2m = FALSE
          ELSE docResult.tag = "raise" /\ docResult.exc = "FieldDoesNotExist"
    /\ Called("get_field") =>
          IF NameKnown
          THEN /\ docResult.tag = "field"
               /\ docResult.field = FieldOf(doc, docCall.name)
               /\ docResult.field.name = docCall.name
          ELSE docResult.tag = "raise" /\ docResult.exc = "FieldDoesNotExist"

\* get_field has raised FieldDoesNotExist for a name the document does not
\* have, on a document that has other fields
C3_Witness ==
    /\ Called("get_field")
    /\ ~NameKnown
    /\ Len(doc) = MaxDocFields
    /\ docResult.tag = "raise"
    /\ docResult.exc = "FieldDoesNotExist"

\* C4: in the tuple get_field_by_name returns, direct is True and model is None
\* for every field of the document, reference fields included.
C4_DirectAndLocal ==
    Called("get_field_by_name") /\ NameKnown =>
        /\ docResult.tag = "tuple"
        /\ docResult.direct = TRUE
        /\ docResult.model = "None"

\* ------------------------------------------------------------- claims C5, C9
AskedFields == docCall.fields
AskedExclude == docCall.exclude
DeclaredNames == {docCall.declared[k] : k \in DOMAIN docCall.declared}
IsObjectId(n) ==
    n \in FieldNames(doc) /\ IsInstance(FieldOf(doc, n).type, "ObjectIdField")

\* C5: fields_for_document: when `fields` is provided only the named fields are
\* in the returned dict; every name in `exclude` is absent from it, even if it
\* is listed in `fields`; ObjectId fields are never included.
C5_FieldsForDocumentAsStated ==
    Called("fields_for_document") /\ docResult.tag = "dict" =>
        /\ AskedFields.given => ODKeys(docResult.items) \subseteq Items(AskedFields)
        /\ ODKeys(docResult.items) \cap Items(AskedExclude) = {}
        /\ \A n \in ODKeys(docResult.items) : ~IsObjectId(n)

\* what the class's field generator makes of the document's field `n`
GeneratedFor(n) ==
    IF n \in FieldNames(doc) /\ ~IsObjectId(n)
    THEN Generate(docCall.how.gen, FieldOf(doc, n).type, form_field_map,
                  widget_override_map, "")
    ELSE None
Excluded(n) == n \in Items(AskedExclude)
\* the names a form field is asked for: Meta.fields, or every field of the document
Wanted ==
    (IF Truthy(AskedFields) THEN Items(AskedFields) ELSE FieldNames(doc))
    \ Items(AskedExclude)
GeneratorRaised ==
    \E n \in Wanted : GeneratedFor(n).tag = "raise"
WithDocument == docCall.parents /\ docCall.hasDocument
RaisedFieldError == docResult.tag = "raise" /\ docResult.exc = "FieldError"

\* base_fields holds the generated fields, every declared field overriding the
\* generated field of its name, and all other declared fields
BaseFieldsAsStated ==
    /\ docResult.tag = "class"
    /\ ODKeys(docResult.base_fields) =
          DeclaredNames \cup {n \in Wanted : GeneratedFor(n).tag = "formfield"}
    /\ \A k \in DOMAIN docResult.base_fields :
          docResult.base_fields[k].value =
              IF docResult.base_fields[k].key \in DeclaredNames THEN DeclaredField
              ELSE GeneratedFor(docResult.base_fields[k].key)

\* C9 as stated: creating a document form class raises FieldError exactly when
\* Meta.fields names a field for which no form field was generated and which is
\* not declared on the class; otherwise base_fields holds the generated fields
\* overridden and extended by the declared ones.
C9_NewClassAsStated ==
    Called("new_class") /\ WithDocument =>
        IF \E n \in Items(AskedFields) :
              /\ n \notin DeclaredNames
              /\ Excluded(n) \/ GeneratedFor(n).tag # "formfield"
        THEN RaisedFieldError
        ELSE BaseFieldsAsStated

\* C9: when generating the form fields raises nothing (an exception of the
\* field generator leaves the class statement as it is), creating a document
\* form class raises FieldError exactly when Meta.fields names a field that is
\* not in Meta.exclude, for which no form field was generated and which is
\* not declared on the class; otherwise base_fields holds the generated fields
\* overridden and extended by the declared ones.  A class without a document
\* form among its bases, or without Meta.document, has the declared fields only.
C9_NewClass ==
    Called("new_class") =>
        IF ~WithDocument
        THEN /\ docResult.tag = "class"
             /\ docResult.base_fields = DeclaredFields(docCall.declared)
        ELSE IF GeneratorRaised
        THEN docResult.tag = "raise" /\ docResult.exc # "FieldError"
        ELSE IF \E n \in Items(AskedFields) \ Items(AskedExclude) :
                   n \notin DeclaredNames /\ GeneratedFor(n).tag = "None"
        THEN RaisedFieldError
        ELSE BaseFieldsAsStated

\* a class statement has raised FieldError for a name of Meta.fields, while
\* another name of Meta.fields is excluded
C9_Witness ==
    /\ Called("new_class")
    /\ WithDocument
    /\ RaisedFieldError
    /\ Items(AskedFields) \cap Items(AskedExclude) # {}

\* ----------------------------------------------------------------- claim C6
Saving == saveCall.op \in {"save_instance", "save"}
\* form.errors was non-empty when the call started
HadErrors == saveCall.form.state \in {"bound", "cleaned"} /\ ~saveCall.form.valid
NoSaveCall == saveCalls = saveCall.saveCalls
OneSaveCall == saveCalls = saveCall.saveCalls + 1
\* the instance came back, or the exception instance.save() raised came out
ReturnedInstance ==
    \/ saveResult.tag = "instance"
    \/ /\ saveCall.commit
       /\ saveResult.tag = "raise"
       /\ saveResult.exc \in {"SaveError", "TypeError"}

\* C6 as stated: save_instance and BaseDocumentForm.save raise ValueError
\* without calling instance.save() whenever form.errors is non-empty; with no
\* errors they call instance.save() exactly once if commit is true, never if
\* commit is false, and return the instance; construct_instance never saves.
C6_SaveAsStated ==
    /\ Saving /\ HadErrors => IsRaise(saveResult, "ValueError") /\ NoSaveCall
    /\ Saving /\ ~HadErrors =>
          /\ IF saveCall.commit THEN OneSaveCall ELSE NoSaveCall
          /\ ReturnedInstance
    /\ saveCall.op = "construct_instance" => NoSaveCall

\* C6: save_instance with construct=True on a form without cleaned_data (not
\* validated yet) raises AttributeError; otherwise save_instance and
\* BaseDocumentForm.save raise ValueError whenever form.errors is non-empty,
\* in both cases without calling instance.save(); with no errors they call
\* instance.save() exactly once if commit is true and the instance has a save
\* method, never if commit is false or the instance has none, and return the
\* instance (or let the exception of save() through); construct_instance
\* never saves the instance.
C6_Save ==
    /\ Saving =>
          IF saveCall.construct /\ saveCall.form.state # "cleaned"
          THEN IsRaise(saveResult, "AttributeError") /\ NoSaveCall
          ELSE IF HadErrors
          THEN IsRaise(saveResult, "ValueError") /\ NoSaveCall
          ELSE IF saveCall.commit /\ saveCall.instance.hasSave
          THEN OneSaveCall /\ ReturnedInstance
          ELSE NoSaveCall /\ saveResult.tag = "instance"
    /\ saveCall.op = "construct_instance" => NoSaveCall

\* a valid form has been saved with commit=True and its instance, which has no
\* save method, was returned unsaved
C6_Witness ==
    /\ saveCall.op = "save"
    /\ saveCall.commit
    /\ ~HadErrors
    /\ ~saveCall.instance.hasSave
    /\ saveResult.tag = "instance"
    /\ NoSaveCall

\* ----------------------------------------------------------------- claim C7
EmbSaved == embCall.op = "save"
ParentUntouched == parent = embCall.parent
\* the parent after one more call on it, its fields as they were
ParentCalled(call) ==
    parent = [embCall.parent EXCEPT !.calls = Append(@, call)]

\* C7: EmbeddedDocumentForm.save: if commit is True the embedded instance is
\* added to the parent document: pushed onto the list field when no position
\* is known, set at the position when one is known, assigned and the parent
\* saved for a non-list field; if commit is False, or if the form has errors
\* (ValueError), the parent document is left untouched: no update, setattr or
\* save is performed on it.
C7_EmbeddedSave ==
    EmbSaved =>
        IF EmbeddedErrors(embCall.form)
        THEN IsRaise(embResult, "ValueError") /\ ParentUntouched
        ELSE IF ~embCall.commit
        THEN ParentUntouched /\ embResult = Val(embForm.instance)
        ELSE /\ IsListField(embForm.embedded_field) /\ embForm.position = NoPosition =>
                   ParentCalled(ParentCall("update_push", embForm.embedded_field,
                                           NoPosition, embForm.instance))
             /\ IsListField(embForm.embedded_field) /\ embForm.position # NoPosition =>
                   ParentCalled(ParentCall("update_set", embForm.embedded_field,
                                           embForm.position, embForm.instance))
             /\ embForm.embedded_field \in ParentFields
                /\ ~IsListField(embForm.embedded_field) =>
                   /\ parent.profile = embForm.instance
                   /\ parent.calls = embCall.parent.calls
                         \o <<ParentCall("setattr", embForm.embedded_field, NoPosition,
                                         embForm.instance),
                              ParentCall("save", "", NoPosition, "")>>
                   /\ parent.comments = embCall.parent.comments

\* a valid form made for an instance the parent's list does not hold has been
\* saved with commit=True, and the instance was pushed onto the list field
C7_Witness ==
    /\ EmbSaved
    /\ embCall.commit
    /\ ~EmbeddedErrors(embCall.form)
    /\ IsListField(embForm.embedded_field)
    /\ embForm.instance \in EmbeddedDocs
    /\ embForm.position = NoPosition
    /\ embCall.parent.comments # <<>>
    /\ embResult = Val(embForm.instance)
    /\ parent.calls = <<ParentCall("update_push", "comments", NoPosition,
                                   embForm.instance)>>

\* ----------------------------------------------------------------- claim C8
FsSaved == fsCall.op = "save"
FormsBefore == fsCall.formset.forms
\* form k has changed or is an initial form
Reached(k) == FormsBefore[k].changed \/ k <= fsCall.formset.initial_form_count
\* form k is marked for deletion and its instance has no delete method
DroppedOnDelete(k) == FormsBefore[k].delete /\ fsCall.formset.embedded
\* q lists the forms of S in form order
InFormOrder(q, S) ==
    /\ {q[i] : i \in DOMAIN q} = S
    /\ \A i, j \in DOMAIN q : i < j => q[i] < q[j]
NothingDoneFor(k) == formset.forms[k] = FormsBefore[k]
NoSaveCalled == \A k \in DOMAIN FormsBefore : formset.forms[k].saves = FormsBefore[k].saves

Raising ==
    {k \in DOMAIN FormsBefore :
        /\ Reached(k)
        /\ \/ FormsBefore[k].errors
           \/ ~fsCall.formset.bound
           \/ fsCall.commit /\ fsCall.formset.embedded /\ ~FormsBefore[k].delete}

GenField == genCall.field
GenEmbedded == IsInstance(GenField, "EmbeddedDocumentField")
GenOwn == Lower(Cls(GenField)) \in GenerateMethods
GenBases == Bases(Cls(GenField))
IsFallback(r) == r.tag = "formfield" /\ r.via = "fallback" /\ r.form_class = "CharField"
\* what the base generator does with the same field, maps and kwargs
BaseResult == Generate("base", GenField, form_field_map, widget_override_map, genCall.kw)

\* the direct bases that have a generator: a generate_<base> method, or an
\* entry in generator_map
BasesWithGenerator ==
    {k \in DOMAIN GenBases :
        \/ Lower(GenBases[k]) \in GenerateMethods
        \/ Lower(GenBases[k]) \in DOMAIN generator_map}
GeneratorOfBase(k) ==
    IF Lower(GenBases[k]) \in GenerateMethods THEN Lower(GenBases[k])
    ELSE generator_map[Lower(GenBases[k])]

(* C10 as stated: generate returns None for an embedded-document field;
   otherwise it dispatches to generate_<lowercased class name> when that exists,
   else to the generator matching the first direct base class that has one, and
   raises NotImplementedError when no generator can be found; the default
   generator returns a CharField in exactly the cases where the base generator
   raises NotImplementedError. *)
C10_GenerateAsStated ==
    genCall.op = "generate" =>
        /\ genCall.gen = "base" =>
              /\ GenEmbedded => genResult.tag = "None"
              /\ ~GenEmbedded /\ GenOwn => genCall.dispatched = Lower(Cls(GenField))
              /\ ~GenEmbedded /\ ~GenOwn /\ BasesWithGenerator # {}
                    => genCall.dispatched = GeneratorOfBase(Min(BasesWithGenerator))
              /\ ~GenEmbedded /\ ~GenOwn /\ BasesWithGenerator = {}
                    => IsRaise(genResult, "NotImplementedError")
        /\ genCall.gen = "default" =>
              (IsFallback(genResult) <=> IsRaise(BaseResult, "NotImplementedError"))

\* ---------------------------------------------------------------- claim C11
UpdatedErrors == valCall.op = "_update_errors"
FieldKeys(message_dict) == DOMAIN message_dict \ {NON_FIELD_ERRORS}
\* the messages recorded for k when the call started
Recorded(k) == IF k \in DOMAIN valCall.form.errors THEN valCall.form.errors[k] ELSE <<>>

\* C11: after _update_errors(message_dict) the error list of every field of
\* message_dict is the list recorded before followed by the field's messages,
\* the NON_FIELD_ERRORS list is the one recorded before followed by the
\* non-field messages, and no field of message_dict is a key of cleaned_data.
C11_UpdateErrors ==
    UpdatedErrors =>
        /\ \A k \in DOMAIN valCall.message_dict :
              /\ k \in DOMAIN valForm.errors
              /\ valForm.errors[k] = Recorded(k) \o valCall.message_dict[k]
        /\ \A k \in FieldKeys(valCall.message_dict) : k \notin DOMAIN valForm.cleaned_data

\* _update_errors was called with a message for a field that had an error
\* recorded, and with one for a field that had a cleaned value
C11_Witness ==
    /\ UpdatedErrors
    /\ \E k \in FieldKeys(valCall.message_dict) :
          Recorded(k) # <<>> /\ valCall.message_dict[k] # <<>>
    /\ \E k \in FieldKeys(valCall.message_dict) : k \in DOMAIN valCall.form.cleaned_data

\* ---------------------------------------------------------------- claim C12
FactoryCalled == facCall.op = "embeddedformset_factory"
\* the fields of parent_document that are an EmbeddedDocumentField, or a
\* ListField of EmbeddedDocumentField, whose document type is `document`
EmbeddedFieldsTo ==
    {k \in DOMAIN facCall.parent_document :
        \/ IsEmbeddedTo(facCall.parent_document[k], facCall.document)
        \/ IsListOfEmbeddedTo(facCall.parent_document[k], facCall.document)}
TheEmbeddedField == facCall.parent_document[CHOOSE k \in EmbeddedFieldsTo : TRUE]

\* C12: embeddedformset_factory called without embedded_name returns, when
\* the parent has exactly one embedded field to the document, a formset whose
\* form has that field's name as _meta.embedded_field, with max_num 1 for a
\* plain EmbeddedDocumentField; it raises when there is none or more than one.
C12_FactoryAsStated ==
    FactoryCalled /\ facCall.embedded_name = "" =>
        IF Cardinality(EmbeddedFieldsTo) = 1
        THEN /\ facResult.tag = "formset"
             /\ facResult.embedded_field = TheEmbeddedField.name
             /\ TheEmbeddedField.class = "EmbeddedDocumentField"
                   => facResult.max_num = IntV(1)
        ELSE facResult.tag = "raise"

\* ---------------------------------------------------------------- claim C13
\* C13: validate_unique has been called by _post_clean only on a form on which
\* BaseDocumentForm.clean has run; on a form whose clean() override does not
\* call the base clean it has never been called.
C13_ValidateUniqueAfterClean ==
    /\ valForm.uniqueCalls > 0 => valForm.baseCleanRan
    /\ ~CallsBaseClean(valForm.clean) => valForm.uniqueCalls = 0

\* full_clean ran BaseDocumentForm.clean for the first time on this form and
\* its _post_clean then called validate_unique
C13_Witness ==
    /\ valCall.op = "full_clean"
    /\ ~valCall.form.baseCleanRan
    /\ valForm.uniqueCalls > valCall.form.uniqueCalls

\* ---------------------------------------------------------------- claim C14
PostCleaned == valCall.op = "full_clean"
\* the form and the instance _post_clean starts from in the last full_clean
PostCleanForm == _clean_form(_clean_fields(valCall.form))
PostCleanExclusions ==
    _get_validation_exclusions(PostCleanForm, ValConstructed(PostCleanForm, valCall.instance))

\* C14: instance.validate() saw _fields_ordered without the excluded names,
\* and when _post_clean has finished, with or without an exception,
\* instance._fields_ordered is what it was before the call.
C14_FieldsOrderedRestored ==
    PostCleaned =>
        /\ valInstance._fields_ordered = valCall.instance._fields_ordered
        /\ valInstance.seen.given
        /\ Items(valInstance.seen) = Items(List(valCall.instance._fields_ordered))
                                         \ PostCleanExclusions
        /\ \A a, b \in DOMAIN valInstance.seen.items :
              a < b => \E c, d \in DOMAIN valCall.instance._fields_ordered :
                          /\ c < d
                          /\ valCall.instance._fields_ordered[c] = valInstance.seen.items[a]
                          /\ valCall.instance._fields_ordered[d] = valInstance.seen.items[b]

\* validate() raised while a field was excluded, and _post_clean has finished
C14_Witness ==
    /\ PostCleaned
    /\ valCall.instance.hook # "ok"
    /\ PostCleanExclusions # {}
    /\ valInstance.seen.items # valCall.instance._fields_ordered

\* ---------------------------------------------------------------- claim C15
\* C15: after meta[key] = value on a LazyDocumentMetaWrapper the value is in
\* the document's meta dict: meta[key] returns value and key is in meta.
C15_SetItemAsStated ==
    lastOp.op = "setitem" =>
        /\ lastResult = None
        /\ meta = DictPut(metaBefore, lastOp.key, lastOp.val)
        /\ WrapperGetItem(meta, lastOp.key) = Val(lastOp.val)
        /\ WrapperContains(meta, lastOp.key) = Bool(TRUE)

\* ---------------------------------------------------------------- claim C16
\* C16: a generator constructed with no overrides maps every field type to
\* its default form field class and default widget, whatever generators were
\* constructed before it.
C16_OverridesStayLocalAsStated ==
    /\ genCall.op = "new"
    /\ genCall.field_overrides = EmptyDict
    /\ genCall.widget_overrides = EmptyDict
    => /\ form_field_map = DefaultFormFieldMap
       /\ widget_override_map = DefaultWidgetOverrideMap

\* ---------------------------------------------------------------- claim C17
\* C17: clean() on the same ListField object gives, for an input it has
\* cleaned before, the outcome it gave the first time: the same cleaned list
\* or the same validation error.
C17_CleanDeterministicAsStated ==
    lfCall.op = "clean" => lfResult = lfSeen[lfCall.value]

=============
